---------------------------- MODULE Spec2Model ----------------------------
(***************************************************************************)
(* Drone Ops service (utils/drone/service.py, utils/drone/policy.py):      *)
(* the arming policy and the request -> approve -> execute workflow.       *)
(*                                                                         *)
(* Python strings are sequences of one-character strings, so that strip(), *)
(* lower() and startswith() are computed and not assumed.  An optional     *)
(* value (x | None) is None == << >> or Some(x) == <<x>>.                  *)
(*                                                                         *)
(* A service call is a sequence of atomic steps, one per store call, per   *)
(* policy-lock region and per emit: the service holds no lock across a     *)
(* store call, so concurrent callers interleave between those steps.       *)
(***************************************************************************)
EXTENDS Integers, Sequences, FiniteSets, TLC

VARIABLES
    action_requests,   \* store table action_requests (approvals embedded), row i has id i
    action_audit_log,  \* store table action_audit_log, in insertion order
    policy,            \* DroneOpsService._armed_until_ts/_armed_by/_arm_reason/_arm_incident_id
    now,               \* time.time(), in seconds
    emitted,           \* envelopes handed to _emit, in order of the emit invocations
    frames,            \* per caller: the call in progress, its position and its locals
    exec_log,          \* history: one entry per status write 'executed' of execute_action
    calls,             \* history: number of service calls started
    last_arm,          \* history: the arguments and time of the arm_actions call in force
    drone_sessions,    \* store table drone_sessions, row i has id i
    drone_detections,  \* store table drone_detections, row i has id i
    drone_tracks,      \* store table drone_tracks, in insertion order
    drone_correlations,\* store table drone_correlations, in insertion order
    subscribers,       \* DroneOpsService._subscribers: the streams whose queue is in the set
    client_queues,     \* the client_queue of each stream started, stream i has queue i
    streams,           \* the stream_events generators started: position and value yielded
    received,          \* history: the events yielded by each stream followed from its start
    emit_overlap,      \* history: <<a, b>> when the _emit of event a ran as that of b started
    upsert_log,        \* history: the id of the row of each upsert_drone_detection done
    drone_incidents,   \* store table drone_incidents with the artifacts, row i has id i
    evidence_manifests,\* store table evidence_manifests, row i has id i
    manifest_log,      \* history: per manifest persisted, the rows and clock it was built on
    http,              \* per caller: the HTTP request in progress and the last response
    probe              \* the pure function under evaluation: its argument and results

vars == <<action_requests, action_audit_log, policy, now, emitted, frames, exec_log, calls,
          last_arm, drone_sessions, drone_detections, drone_tracks, drone_correlations,
          subscribers, client_queues, streams, received, emit_overlap, upsert_log,
          drone_incidents, evidence_manifests, manifest_log, http, probe>>

\* the state of sessions, ingestion and streaming
ingest_vars == <<drone_detections, drone_tracks, drone_correlations, upsert_log>>
stream_vars == <<subscribers, client_queues, streams, received, emit_overlap>>
manifest_vars == <<drone_incidents, evidence_manifests, manifest_log>>
route_vars == <<http>>
ops_vars == <<drone_sessions, ingest_vars, stream_vars, manifest_vars, route_vars>>

---------------------------------------------------------------------------
(* Bounds of the model *)

\* service calls started in one behaviour, single caller
MaxCalls == 5
\* service calls started in one behaviour, concurrent callers
MaxCallsConc == 3
\* rows of action_requests
MaxRequests == 1
\* the clock stops advancing here
MaxTime == 900
\* service calls started in one behaviour, policy calls only
MaxCallsPolicy == 3
\* service calls started in one behaviour, session calls by one caller
MaxCallsSess == 4
\* service calls started in one behaviour, session calls by concurrent callers
MaxCallsSessConc == 3
\* ingest_event calls started in one behaviour
MaxCallsIngest == 2
\* detections in the list of one event
MaxDetectionsPerEvent == 2
\* _emit calls started in one behaviour
MaxCallsEmit == 2
\* _emit calls started in one behaviour, two emitters
MaxCallsBus == 2
\* stream_events generators started in one behaviour
MaxStreams == 2
\* events the streams followed take from their queues in one behaviour
MaxReceived == 2
\* _emit calls started in one behaviour beside the streams that start and end
MaxCallsStream == 1
\* calls of the manifest builder and of add_incident_artifact in one behaviour
MaxCallsManifest == 2
\* service calls started by the route handlers in one behaviour
MaxCallsRoute == 2
\* the last instant of the clock of the manifest builder
MaxClock == 1
\* service calls started in one behaviour of the lock-level model
MaxCallsLock == 2
\* service calls started in one behaviour, the manifest builder beside the workflow
MaxCallsSnapshot == 2
\* ingest_event, start_session and stop_session calls started in one behaviour, two threads
MaxCallsIngestSess == 2

---------------------------------------------------------------------------
(* Python values *)

None == << >>
Some(x) == <<x>>

UpperAlpha ==
    <<"A","B","C","D","E","F","G","H","I","J","K","L","M",
      "N","O","P","Q","R","S","T","U","V","W","X","Y","Z">>
LowerAlpha ==
    <<"a","b","c","d","e","f","g","h","i","j","k","l","m",
      "n","o","p","q","r","s","t","u","v","w","x","y","z">>

\* str.lower() on one character
LowerChar(c) ==
    IF \E i \in 1..Len(UpperAlpha) : UpperAlpha[i] = c
    THEN LowerAlpha[CHOOSE i \in 1..Len(UpperAlpha) : UpperAlpha[i] = c]
    ELSE c

\* str.lower()
Lower(s) == [i \in 1..Len(s) |-> LowerChar(s[i])]

IsSpace(c) == c \in {" ", "\t", "\n", "\r"}

RECURSIVE LStrip(_)
LStrip(s) == IF s # << >> /\ IsSpace(Head(s)) THEN LStrip(Tail(s)) ELSE s

RECURSIVE RStrip(_)
RStrip(s) ==
    IF s # << >> /\ IsSpace(s[Len(s)]) THEN RStrip(SubSeq(s, 1, Len(s) - 1)) ELSE s

\* str.strip()
Strip(s) == RStrip(LStrip(s))

\* str.startswith(prefix)
StartsWith(s, prefix) ==
    Len(s) >= Len(prefix) /\ SubSeq(s, 1, Len(prefix)) = prefix

\* (x or ''): None and the empty string both give ''
OrEmpty(x) == IF x = None THEN << >> ELSE x[1]

RECURSIVE IntToStr(_)
\* str(n) for n >= 0
IntToStr(n) ==
    LET digit == <<"0","1","2","3","4","5","6","7","8","9">>[(n % 10) + 1]
    IN  IF n < 10 THEN <<digit>> ELSE IntToStr(n \div 10) \o <<digit>>

---------------------------------------------------------------------------
(* String literals of the program and of its callers *)

s_passive_ == <<"p","a","s","s","i","v","e","_">>
s_approved == <<"a","p","p","r","o","v","e","d">>
s_rejected == <<"r","e","j","e","c","t","e","d">>
s_wifi_deauth_test ==
    <<"w","i","f","i","_","d","e","a","u","t","h","_","t","e","s","t">>
s_passive_spectrum_capture ==
    s_passive_ \o <<"s","p","e","c","t","r","u","m","_","c","a","p","t","u","r","e">>

s_not_found == <<"Action request not found">>
s_not_armed == <<"Action plane is not armed">>

\* f'Insufficient approvals ({approved_count}/{required})'
InsufficientMsg(approved_count, required) ==
    <<"Insufficient approvals (">> \o IntToStr(approved_count) \o <<"/">>
        \o IntToStr(required) \o <<")">>

---------------------------------------------------------------------------
(* Policy helpers *)

\* utils/drone/policy.py
required_approvals_for_action(action_type) ==
    LET action == Lower(Strip(OrEmpty(action_type)))
    IN  IF StartsWith(action, s_passive_) THEN 1 ELSE 2

\* required_approvals without strip()
required_approvals_NoStrip(action_type) ==
    LET action == Lower(OrEmpty(action_type))
    IN  IF StartsWith(action, s_passive_) THEN 1 ELSE 2

\* DroneOpsService.required_approvals
required_approvals(action_type) ==
    LET action == Lower(Strip(OrEmpty(action_type)))
    IN  IF StartsWith(action, s_passive_) THEN 1 ELSE 2

---------------------------------------------------------------------------
(* The store: utils/database, an opaque CRUD store.  Each call is atomic.  *)

\* the row with its approvals, or None
get_action_request(rows, request_id) ==
    IF request_id \in DOMAIN rows THEN Some(rows[request_id]) ELSE None

\* a new row in status pending; the store assigns the next id
create_action_request(rows, incident_id, action_type, requested_by) ==
    Append(rows, [id           |-> Len(rows) + 1,
                  incident_id  |-> incident_id,
                  action_type  |-> action_type,
                  requested_by |-> requested_by,
                  status       |-> "pending",
                  approvals    |-> << >>,
                  executed_by  |-> None])

\* one more row of action_approvals for the request
add_action_approval(rows, request_id, approved_by, decision) ==
    IF request_id \in DOMAIN rows
    THEN [rows EXCEPT ![request_id].approvals =
              Append(@, [approved_by |-> approved_by, decision |-> decision])]
    ELSE rows

\* one more row of action_audit_log
add_action_audit_log(log, request_id, event_type, actor) ==
    Append(log, [request_id |-> request_id, event_type |-> event_type, actor |-> actor])

\* sets the status, and executed_by when one is given
update_action_request_status(rows, request_id, status, executed_by) ==
    IF request_id \in DOMAIN rows
    THEN [rows EXCEPT ![request_id].status = status,
                      ![request_id].executed_by =
                          IF executed_by = None THEN @ ELSE executed_by]
    ELSE rows

\* list_action_audit_logs(request_id=...)
list_action_audit_logs(log, request_id) ==
    SelectSeq(log, LAMBDA e : e.request_id = request_id)

---------------------------------------------------------------------------
(* Policy state *)

Disarmed ==
    [armed_until_ts |-> None, armed_by |-> None, arm_reason |-> None,
     arm_incident_id |-> None]

\* the armed test with the end of the window inside it
IsArmed_Inclusive(p, t) == p.armed_until_ts # None /\ t <= p.armed_until_ts[1]

\* the armed test of _policy_state_locked
IsArmed(p, t) == p.armed_until_ts # None /\ t < p.armed_until_ts[1]

\* _policy_state_locked: the fields after the lazy clear, and the snapshot.
\* The ISO text of armed_until is represented by the instant it denotes.
PolicyAfterRead_NoClear(p, t) == p

PolicyAfterRead(p, t) == IF IsArmed(p, t) THEN p ELSE Disarmed

_policy_state_locked(p, t) ==
    LET q == PolicyAfterRead(p, t)
    IN  [armed           |-> IsArmed(p, t),
         armed_by        |-> q.armed_by,
         arm_reason      |-> q.arm_reason,
         arm_incident_id |-> q.arm_incident_id,
         armed_until     |-> IF q.armed_until_ts # None /\ q.armed_until_ts[1] # 0
                             THEN q.armed_until_ts ELSE None,
         required_approvals_default |-> 2]

\* max(60, min(7200, int(duration_seconds or 900)))
Min(a, b) == IF a < b THEN a ELSE b
Max(a, b) == IF a > b THEN a ELSE b
\* the duration without its lower limit
ArmDuration_NoFloor(duration_seconds) ==
    LET d == IF duration_seconds = None \/ duration_seconds[1] = 0
             THEN 900 ELSE duration_seconds[1]
    IN  Min(7200, d)

ArmDuration(duration_seconds) ==
    LET d == IF duration_seconds = None \/ duration_seconds[1] = 0
             THEN 900 ELSE duration_seconds[1]
    IN  Max(60, Min(7200, d))

---------------------------------------------------------------------------
(* Callers and their inputs *)

s_sa  == <<"s","a">>
s_SA  == <<"S","A">>
s_sb  == <<"s","b">>
s_op1 == <<"o","p","1">>
s_op2 == <<"o","p","2">>
s_reason == <<"t","e","s","t">>

SeqCallers  == {"t1"}
ConcCallers == {"t1", "t2"}
\* the caller that makes policy calls only
PolicyCallers == {"p1"}
\* the callers that make session calls, one at a time or concurrently
SessCallers == {"s1"}
SessConcCallers == {"s1", "s2"}
\* the caller that feeds events to ingest_event
IngestCallers == {"i1"}
\* the thread that emits events to the subscribers
EmitCallers == {"e1"}
\* the threads that emit concurrently
BusCallers == {"b1", "b2"}
\* the thread that emits while streams start and end
StreamCallers == {"c1"}
Callers     == DOMAIN frames
Concurrent  == Cardinality(Callers) > 1
PolicyOnly  == Callers = PolicyCallers
\* the calls come through the routes
Routed      == Callers = {"r1"}

\* the inputs of the calls; the concurrent callers and the routes draw from fewer names
ActionTypes  == {s_wifi_deauth_test, s_passive_spectrum_capture}
Approvers    == IF Concurrent \/ Routed THEN {s_sa, s_sb} ELSE {s_sa, s_SA, s_sb}
Decisions    == {s_approved, s_rejected}
Operators    == IF Concurrent \/ Routed THEN {s_op1} ELSE {s_op1, s_op2}
RequestIds   == 1..MaxRequests
IncidentIds  == {1}
\* duration_seconds of arm_actions: not given
WorkflowDurations == {None}
\* duration_seconds of arm_actions when the arming window is under study
PolicyDurations == {None, Some(0), Some(5), Some(61), Some(7200), Some(100000)}
Durations == IF PolicyOnly THEN PolicyDurations ELSE WorkflowDurations
\* actor of arm_actions
ArmActors == IF PolicyOnly THEN {s_op1, s_op2} ELSE {s_op1}
\* seconds by which the clock advances in one step
WorkflowTicks == {900}

\* the locals of a call; pc = "done" when no call is in progress, and then
\* op and ret are those of the caller's last call. The session and ingestion calls keep
\* their arguments in args and their locals in loc, each a record or None. held is
\* the set of the service's locks the caller holds.
IdleFrame ==
    [op |-> "idle", pc |-> "done", request_id |-> 0, who |-> << >>,
     decision |-> << >>, reason |-> None, req |-> None, approved_count |-> 0,
     required |-> 0, state |-> None, ret |-> None, args |-> None, loc |-> None,
     held |-> {}]

Budget  == IF PolicyOnly THEN MaxCallsPolicy
           ELSE IF Callers = SessCallers THEN MaxCallsSess
           ELSE IF Callers = SessConcCallers THEN MaxCallsSessConc
           ELSE IF Callers = IngestCallers THEN MaxCallsIngest
           ELSE IF Callers = EmitCallers THEN MaxCallsEmit
           ELSE IF Callers = BusCallers THEN MaxCallsBus
           ELSE IF Callers = StreamCallers THEN MaxCallsStream
           ELSE IF Callers = {"m1"} THEN MaxCallsManifest
           ELSE IF Callers = {"r1"} THEN MaxCallsRoute
           ELSE IF Callers = {"k1", "k2"} THEN MaxCallsLock
           ELSE IF Callers = {"g1", "g2"} THEN MaxCallsSnapshot
           ELSE IF Callers = {"h1", "h2"} THEN MaxCallsIngestSess
           ELSE IF Concurrent THEN MaxCallsConc ELSE MaxCalls
\* callers are interchangeable threads: a new call is taken by the first idle one
CallerOrder == <<"t1", "t2", "s1", "s2", "b1", "b2", "k1", "k2", "g1", "g2",
                "h1", "h2">>
FirstIdle(t) ==
    \A i, j \in DOMAIN CallerOrder :
        (CallerOrder[j] = t /\ i < j /\ CallerOrder[i] \in Callers)
            => frames[CallerOrder[i]].pc # "done"
CanCall(t) == frames[t].pc = "done" /\ calls < Budget /\ FirstIdle(t)

\* the caller's frame after its call returned ret: the locals are gone
Return(f, ret) ==
    [IdleFrame EXCEPT !.op = f.op, !.request_id = f.request_id, !.who = f.who,
                      !.decision = f.decision, !.args = f.args, !.ret = ret,
                      !.held = f.held]

\* the caller's frame at the start of a call
NewFrame(op, pc, request_id, who) ==
    [IdleFrame EXCEPT !.op = op, !.pc = pc, !.request_id = request_id, !.who = who]

Goto(t, pc) == frames' = [frames EXCEPT ![t].pc = pc]

\* _emit: the envelope {type, timestamp, payload}; no code of the service reads the
\* timestamp, which is left out
Envelope(event_type, payload) == [type |-> event_type, payload |-> payload]

\* a request dict as returned, with the keys the service adds to the row
Returned(row, required, approved_count) ==
    [row |-> row, required_approvals |-> required, approved_count |-> approved_count]

\* no session, no detection, no subscriber
NoOps ==
    /\ drone_sessions = << >>
    /\ drone_detections = << >>
    /\ drone_tracks = << >>
    /\ drone_correlations = << >>
    /\ drone_incidents = << >>
    /\ evidence_manifests = << >>
    /\ manifest_log = << >>
    /\ http = << >>
    /\ subscribers = {}
    /\ client_queues = << >>
    /\ streams = << >>
    /\ received = << >>
    /\ emit_overlap = {}
    /\ upsert_log = << >>

\* no pure function has been evaluated
NoProbe == [fn |-> "none", arg |-> None, out |-> << >>]

Init ==
    /\ action_requests = << >>
    /\ action_audit_log = << >>
    /\ policy = Disarmed
    /\ now = 0
    /\ emitted = << >>
    /\ frames = [t \in SeqCallers |-> IdleFrame]
    /\ exec_log = << >>
    /\ calls = 0
    /\ last_arm = None
    /\ probe = NoProbe
    /\ NoOps

\* an arm_actions call as remembered: its arguments and the time it was made
ArmCall(actor, reason, incident_id, duration_seconds, t) ==
    [actor |-> actor, reason |-> reason, incident_id |-> incident_id,
     duration_seconds |-> duration_seconds, at |-> t]

\* the fields arm_actions writes under the policy lock
ArmedPolicy(actor, reason, incident_id, duration_seconds, t) ==
    [armed_until_ts  |-> Some(t + ArmDuration(duration_seconds)),
     armed_by        |-> Some(actor),
     arm_reason      |-> Some(reason),
     arm_incident_id |-> Some(incident_id)]

\* Two callers, starting in the state that arm_actions(op1, 'test', 1) leaves at time 0:
\* the action plane is armed and the policy_armed event is out.
InitConc ==
    LET p == ArmedPolicy(s_op1, s_reason, 1, None, 0)
    IN  /\ action_requests = << >>
        /\ action_audit_log = << >>
        /\ policy = p
        /\ now = 0
        /\ emitted = <<Envelope("policy_armed",
               [actor |-> s_op1, reason |-> Some(s_reason), incident_id |-> 1,
                state |-> _policy_state_locked(p, 0)])>>
        /\ frames = [t \in ConcCallers |-> IdleFrame]
        /\ exec_log = << >>
        /\ calls = 0
        /\ last_arm = Some(ArmCall(s_op1, s_reason, 1, None, 0))
        /\ probe = NoProbe
        /\ NoOps

---------------------------------------------------------------------------
(* Time *)

\* the clock is read only to open and to test the arming window, so it is let advance
\* only while the window's end is set
Tick ==
    \E d \in WorkflowTicks :
        /\ policy.armed_until_ts # None
        /\ now + d <= MaxTime
        /\ now' = now + d
        /\ UNCHANGED <<ops_vars, last_arm, probe, action_requests, action_audit_log, policy, emitted, frames,
                       exec_log, calls>>

---------------------------------------------------------------------------
(* Policy calls *)

\* get_policy_state: one region under the policy lock
get_policy_state(t) ==
    /\ CanCall(t)
    /\ policy' = PolicyAfterRead(policy, now)
    /\ frames' = [frames EXCEPT ![t] =
           Return(NewFrame("get_policy_state", "done", 0, << >>),
                  Some(_policy_state_locked(policy, now)))]
    /\ calls' = calls + 1
    /\ UNCHANGED <<ops_vars, last_arm, probe, action_requests, action_audit_log, now, emitted, exec_log>>

\* arm_actions, lines 141-147: the region under the policy lock
arm_actions(t) ==
    \E actor \in ArmActors, incident_id \in IncidentIds, d \in Durations :
        LET p == ArmedPolicy(actor, s_reason, incident_id, d, now)
        IN  /\ CanCall(t)
            /\ policy' = PolicyAfterRead(p, now)
            /\ last_arm' = Some(ArmCall(actor, s_reason, incident_id, d, now))
            /\ frames' = [frames EXCEPT ![t] =
                   [NewFrame("arm_actions", "emit", incident_id, actor) EXCEPT
                       !.reason = Some(s_reason),
                       !.state = Some(_policy_state_locked(p, now))]]
            /\ calls' = calls + 1
            /\ UNCHANGED <<ops_vars, probe, action_requests, action_audit_log, now, emitted, exec_log>>

\* arm_actions, lines 149-150: emit and return
arm_actions_emit(t) ==
    /\ frames[t].op = "arm_actions" /\ frames[t].pc = "emit"
    /\ emitted' = Append(emitted, Envelope("policy_armed",
           [actor |-> frames[t].who, reason |-> frames[t].reason,
            incident_id |-> frames[t].request_id, state |-> frames[t].state[1]]))
    /\ frames' = [frames EXCEPT ![t] = Return(@, frames[t].state)]
    /\ UNCHANGED <<ops_vars, last_arm, probe, action_requests, action_audit_log, policy, now, exec_log, calls>>

\* disarm_actions leaving arm_incident_id as it was
disarm_actions_KeepsIncident(t) ==
    \E actor \in {s_op1}, reason \in {None} :
        /\ CanCall(t)
        /\ policy' = [Disarmed EXCEPT !.arm_incident_id = policy.arm_incident_id]
        /\ last_arm' = None
        /\ frames' = [frames EXCEPT ![t] =
               [NewFrame("disarm_actions", "emit", 0, actor) EXCEPT
                   !.reason = reason,
                   !.state = Some(_policy_state_locked(Disarmed, now))]]
        /\ calls' = calls + 1
        /\ UNCHANGED <<ops_vars, probe, action_requests, action_audit_log, now, emitted, exec_log>>

\* disarm_actions, lines 154-159: the region under the policy lock
disarm_actions(t) ==
    \E actor \in {s_op1}, reason \in {None} :
        /\ CanCall(t)
        /\ policy' = PolicyAfterRead(Disarmed, now)
        /\ last_arm' = None
        /\ frames' = [frames EXCEPT ![t] =
               [NewFrame("disarm_actions", "emit", 0, actor) EXCEPT
                   !.reason = reason,
                   !.state = Some(_policy_state_locked(Disarmed, now))]]
        /\ calls' = calls + 1
        /\ UNCHANGED <<ops_vars, probe, action_requests, action_audit_log, now, emitted, exec_log>>

\* disarm_actions, lines 161-162: emit and return
disarm_actions_emit(t) ==
    /\ frames[t].op = "disarm_actions" /\ frames[t].pc = "emit"
    /\ emitted' = Append(emitted, Envelope("policy_disarmed",
           [actor |-> frames[t].who, reason |-> frames[t].reason,
            state |-> frames[t].state[1]]))
    /\ frames' = [frames EXCEPT ![t] = Return(@, frames[t].state)]
    /\ UNCHANGED <<ops_vars, last_arm, probe, action_requests, action_audit_log, policy, now, exec_log, calls>>

---------------------------------------------------------------------------
(* request_action *)

\* lines 451-456: create_action_request
request_action(t) ==
    \E incident_id \in IncidentIds, action_type \in ActionTypes, requested_by \in {s_op1} :
        /\ CanCall(t)
        /\ Len(action_requests) < MaxRequests
        /\ action_requests' =
               create_action_request(action_requests, incident_id, action_type, requested_by)
        /\ frames' = [frames EXCEPT ![t] =
               NewFrame("request_action", "audit", Len(action_requests) + 1, requested_by)]
        /\ calls' = calls + 1
        /\ UNCHANGED <<ops_vars, last_arm, probe, action_audit_log, policy, now, emitted, exec_log>>

\* lines 457-462: the 'requested' audit entry
request_action_audit(t) ==
    /\ frames[t].op = "request_action" /\ frames[t].pc = "audit"
    /\ action_audit_log' = add_action_audit_log(action_audit_log, frames[t].request_id,
                                                "requested", frames[t].who)
    /\ Goto(t, "read")
    /\ UNCHANGED <<ops_vars, last_arm, probe, action_requests, policy, now, emitted, exec_log, calls>>

\* lines 463-465: read the row back
request_action_read(t) ==
    /\ frames[t].op = "request_action" /\ frames[t].pc = "read"
    /\ LET req == get_action_request(action_requests, frames[t].request_id)
       IN  frames' = [frames EXCEPT ![t] =
               IF req = None
               THEN Return(@, None)
               ELSE [@ EXCEPT !.pc = "emit", !.req = req,
                              !.required = required_approvals(Some(req[1].action_type))]]
    /\ UNCHANGED <<ops_vars, last_arm, probe, action_requests, action_audit_log, policy, now, emitted, exec_log, calls>>

\* lines 466-467: emit and return
request_action_emit(t) ==
    /\ frames[t].op = "request_action" /\ frames[t].pc = "emit"
    /\ LET out == Returned(frames[t].req[1], Some(frames[t].required), None)
       IN  /\ emitted' = Append(emitted, Envelope("action_requested", [request |-> out]))
           /\ frames' = [frames EXCEPT ![t] = Return(@, Some(out))]
    /\ UNCHANGED <<ops_vars, last_arm, probe, action_requests, action_audit_log, policy, now, exec_log, calls>>

---------------------------------------------------------------------------
(* approve_action *)

\* AlreadyDecided comparing the names as written
AlreadyDecided_CaseSensitive(approvals, approver) ==
    \E i \in DOMAIN approvals : approvals[i].approved_by = approver

\* line 481: any((a.get('approved_by') or '').lower() == approver.lower() ...)
AlreadyDecided(approvals, approver) ==
    \E i \in DOMAIN approvals : Lower(approvals[i].approved_by) = Lower(approver)

\* lines 497, 523: the approvals whose decision, lower-cased, is 'approved'
ApprovedCount(approvals) ==
    Cardinality({i \in DOMAIN approvals : Lower(approvals[i].decision) = s_approved})

\* lines 500-503: the status approve_action writes, if any
ApproveNewStatus(decision, approved_count, required, status) ==
    IF Lower(decision) = s_rejected THEN Some("rejected")
    ELSE IF approved_count >= required /\ status \notin {"executed", "rejected"}
         THEN Some("approved")
         ELSE None

\* lines 476-482: read the request; return on a missing request or a repeated approver
approve_action(t) ==
    \E request_id \in RequestIds, approver \in Approvers, decision \in Decisions :
        LET req == get_action_request(action_requests, request_id)
            f   == [NewFrame("approve_action", "add_approval", request_id, approver)
                        EXCEPT !.decision = decision, !.req = req]
        IN  /\ CanCall(t)
            /\ frames' = [frames EXCEPT ![t] =
                   IF req = None
                   THEN Return(f, None)
                   ELSE IF AlreadyDecided(req[1].approvals, approver)
                        THEN Return(f, Some(Returned(req[1], None, None)))
                        ELSE f]
            /\ calls' = calls + 1
            /\ UNCHANGED <<ops_vars, last_arm, probe, action_requests, action_audit_log, policy, now, emitted, exec_log>>

\* line 484: add_action_approval
approve_action_add_approval(t) ==
    /\ frames[t].op = "approve_action" /\ frames[t].pc = "add_approval"
    /\ action_requests' = add_action_approval(action_requests, frames[t].request_id,
                                              frames[t].who, frames[t].decision)
    /\ Goto(t, "audit")
    /\ UNCHANGED <<ops_vars, last_arm, probe, action_audit_log, policy, now, emitted, exec_log, calls>>

\* approve_action going on without its audit entry
approve_action_audit_Skipped(t) ==
    /\ frames[t].op = "approve_action" /\ frames[t].pc = "audit"
    /\ Goto(t, "reread")
    /\ UNCHANGED <<ops_vars, last_arm, probe, action_requests, action_audit_log, policy, now, emitted, exec_log,
                   calls>>

\* lines 485-490: the 'approval' audit entry
approve_action_audit(t) ==
    /\ frames[t].op = "approve_action" /\ frames[t].pc = "audit"
    /\ action_audit_log' = add_action_audit_log(action_audit_log, frames[t].request_id,
                                                "approval", frames[t].who)
    /\ Goto(t, "reread")
    /\ UNCHANGED <<ops_vars, last_arm, probe, action_requests, policy, now, emitted, exec_log, calls>>

\* lines 492-498: read the request again, count and decide what to write
approve_action_reread(t) ==
    /\ frames[t].op = "approve_action" /\ frames[t].pc = "reread"
    /\ LET req == get_action_request(action_requests, frames[t].request_id)
       IN  frames' = [frames EXCEPT ![t] =
               IF req = None
               THEN Return(@, None)
               ELSE LET n == ApprovedCount(req[1].approvals)
                        r == required_approvals(Some(req[1].action_type))
                    IN  [@ EXCEPT !.req = req, !.approved_count = n, !.required = r,
                                  !.pc = IF ApproveNewStatus(frames[t].decision, n, r,
                                                             req[1].status) = None
                                         THEN "read" ELSE "update"]]
    /\ UNCHANGED <<ops_vars, last_arm, probe, action_requests, action_audit_log, policy, now, emitted, exec_log, calls>>

\* lines 500-503: update_action_request_status, from the request as read at line 492
approve_action_update(t) ==
    /\ frames[t].op = "approve_action" /\ frames[t].pc = "update"
    /\ action_requests' = update_action_request_status(action_requests, frames[t].request_id,
           ApproveNewStatus(frames[t].decision, frames[t].approved_count,
                            frames[t].required, frames[t].req[1].status)[1], None)
    /\ Goto(t, "read")
    /\ UNCHANGED <<ops_vars, last_arm, probe, action_audit_log, policy, now, emitted, exec_log, calls>>

\* lines 505-508: read the request a last time
approve_action_read(t) ==
    /\ frames[t].op = "approve_action" /\ frames[t].pc = "read"
    /\ LET req == get_action_request(action_requests, frames[t].request_id)
       IN  frames' = [frames EXCEPT ![t] =
               IF req = None
               THEN Return(@, None)
               ELSE [@ EXCEPT !.pc = "emit", !.req = req]]
    /\ UNCHANGED <<ops_vars, last_arm, probe, action_requests, action_audit_log, policy, now, emitted, exec_log, calls>>

\* lines 509-510: emit and return
approve_action_emit(t) ==
    /\ frames[t].op = "approve_action" /\ frames[t].pc = "emit"
    /\ LET out == Returned(frames[t].req[1], Some(frames[t].required),
                           Some(frames[t].approved_count))
       IN  /\ emitted' = Append(emitted, Envelope("action_approved", [request |-> out]))
           /\ frames' = [frames EXCEPT ![t] = Return(@, Some(out))]
    /\ UNCHANGED <<ops_vars, last_arm, probe, action_requests, action_audit_log, policy, now, exec_log, calls>>

---------------------------------------------------------------------------
(* execute_action *)

\* ExecuteGate with the two counts of the message exchanged
ExecuteGate_SwappedCounts(armed, approved_count, required) ==
    IF ~armed THEN Some(s_not_armed)
    ELSE IF approved_count < required
         THEN Some(InsufficientMsg(required, approved_count))
         ELSE None

\* ExecuteGate without the test of policy.armed
ExecuteGate_NoArmCheck(armed, approved_count, required) ==
    IF approved_count < required
    THEN Some(InsufficientMsg(approved_count, required))
    ELSE None

\* lines 519-527: the error execute_action returns after its policy read, if any
ExecuteGate(armed, approved_count, required) ==
    IF ~armed THEN Some(s_not_armed)
    ELSE IF approved_count < required
         THEN Some(InsufficientMsg(approved_count, required))
         ELSE None

\* lines 514-516: read the request
execute_action(t) ==
    \E request_id \in RequestIds, actor \in Operators :
        LET req == get_action_request(action_requests, request_id)
            f   == [NewFrame("execute_action", "policy", request_id, actor) EXCEPT !.req = req]
        IN  /\ CanCall(t)
            /\ frames' = [frames EXCEPT ![t] =
                   IF req = None
                   THEN Return(f, Some([req |-> None, error |-> Some(s_not_found)]))
                   ELSE f]
            /\ calls' = calls + 1
            /\ UNCHANGED <<ops_vars, last_arm, probe, action_requests, action_audit_log, policy, now, emitted, exec_log>>

\* lines 518-527: read the policy under its lock, then count the approvals read at line 514
execute_action_policy(t) ==
    /\ frames[t].op = "execute_action" /\ frames[t].pc = "policy"
    /\ policy' = PolicyAfterRead(policy, now)
    /\ LET state == _policy_state_locked(policy, now)
           n     == ApprovedCount(frames[t].req[1].approvals)
           r     == required_approvals(Some(frames[t].req[1].action_type))
           err   == ExecuteGate(state.armed, n, r)
       IN  frames' = [frames EXCEPT ![t] =
               IF err = None
               THEN [@ EXCEPT !.state = Some(state), !.approved_count = n, !.required = r,
                              !.pc = "update"]
               ELSE Return(@, Some([req |-> None, error |-> err]))]
    /\ UNCHANGED <<ops_vars, last_arm, probe, action_requests, action_audit_log, now, emitted, exec_log, calls>>

\* line 529: update_action_request_status(status='executed', executed_by=actor)
execute_action_update(t) ==
    /\ frames[t].op = "execute_action" /\ frames[t].pc = "update"
    /\ action_requests' = update_action_request_status(action_requests, frames[t].request_id,
                                                       "executed", Some(frames[t].who))
    /\ exec_log' = Append(exec_log,
           [request_id |-> frames[t].request_id, actor |-> frames[t].who,
            armed |-> frames[t].state[1].armed,
            approved_count |-> frames[t].approved_count, required |-> frames[t].required])
    /\ Goto(t, "audit")
    /\ UNCHANGED <<ops_vars, last_arm, probe, action_audit_log, policy, now, emitted, calls>>

\* lines 530-538: the 'executed' audit entry
execute_action_audit(t) ==
    /\ frames[t].op = "execute_action" /\ frames[t].pc = "audit"
    /\ action_audit_log' = add_action_audit_log(action_audit_log, frames[t].request_id,
                                                "executed", frames[t].who)
    /\ Goto(t, "read")
    /\ UNCHANGED <<ops_vars, last_arm, probe, action_requests, policy, now, emitted, exec_log, calls>>

\* lines 540-543: read the request back
execute_action_read(t) ==
    /\ frames[t].op = "execute_action" /\ frames[t].pc = "read"
    /\ LET req == get_action_request(action_requests, frames[t].request_id)
       IN  frames' = [frames EXCEPT ![t] =
               IF req = None
               THEN Return(@, Some([req |-> None, error |-> None]))
               ELSE [@ EXCEPT !.pc = "emit", !.req = req]]
    /\ UNCHANGED <<ops_vars, last_arm, probe, action_requests, action_audit_log, policy, now, emitted, exec_log, calls>>

\* lines 544-545: emit and return
execute_action_emit(t) ==
    /\ frames[t].op = "execute_action" /\ frames[t].pc = "emit"
    /\ LET out == Returned(frames[t].req[1], Some(frames[t].required),
                           Some(frames[t].approved_count))
       IN  /\ emitted' = Append(emitted, Envelope("action_executed", [request |-> out]))
           /\ frames' = [frames EXCEPT ![t] = Return(@, Some([req |-> Some(out), error |-> None]))]
    /\ UNCHANGED <<ops_vars, last_arm, probe, action_requests, action_audit_log, policy, now, exec_log, calls>>

---------------------------------------------------------------------------
(* Specifications *)

Next ==
    \/ Tick
    \/ \E t \in Callers : arm_actions(t)
    \/ \E t \in Callers : arm_actions_emit(t)
    \/ \E t \in Callers : disarm_actions(t)
    \/ \E t \in Callers : disarm_actions_emit(t)
    \/ \E t \in Callers : request_action(t)
    \/ \E t \in Callers : request_action_audit(t)
    \/ \E t \in Callers : request_action_read(t)
    \/ \E t \in Callers : request_action_emit(t)
    \/ \E t \in Callers : approve_action(t)
    \/ \E t \in Callers : approve_action_add_approval(t)
    \/ \E t \in Callers : approve_action_audit(t)
    \/ \E t \in Callers : approve_action_reread(t)
    \/ \E t \in Callers : approve_action_update(t)
    \/ \E t \in Callers : approve_action_read(t)
    \/ \E t \in Callers : approve_action_emit(t)
    \/ \E t \in Callers : execute_action(t)
    \/ \E t \in Callers : execute_action_policy(t)
    \/ \E t \in Callers : execute_action_update(t)
    \/ \E t \in Callers : execute_action_audit(t)
    \/ \E t \in Callers : execute_action_read(t)
    \/ \E t \in Callers : execute_action_emit(t)

\* one caller: the calls follow one another
Spec == Init /\ [][Next]_vars

\* two concurrent callers
SpecConc == InitConc /\ [][Next]_vars

---------------------------------------------------------------------------
(* Sessions *)

s_passive == <<"p","a","s","s","i","v","e">>
s_active  == <<"a","c","t","i","v","e">>
s_label   == <<"l","a","b">>

\* mode of start_session: '' and 'active'
SessionModes == {<< >>, s_active}
SessionLabels == IF Concurrent \/ Routed THEN {None} ELSE {None, Some(s_label)}
SessionOperators == IF Concurrent \/ Routed THEN {s_op1} ELSE {s_op1, s_op2}
\* session_id of stop_session: not given, 0, the ids of the sessions there can be
SessionIdArgs == {None} \cup {Some(i) : i \in 0..2}
\* summary of stop_session: not given, or the caller's own
SessionSummaries == {None, Some([note |-> s_label])}

\* the store: each operation is one atomic call
\* get_active_drone_session(): the session with stopped_at null, the latest if several
get_active_drone_session(rows) ==
    LET act == {i \in DOMAIN rows : rows[i].stopped_at = None}
    IN  IF act = {} THEN None
        ELSE Some(rows[CHOOSE i \in act : \A j \in act : j <= i])

create_drone_session(rows, mode, label, operator, metadata) ==
    Append(rows, [id |-> Len(rows) + 1, mode |-> mode, label |-> label,
                  operator |-> operator, metadata |-> metadata,
                  stopped_at |-> None, summary |-> None])

get_drone_session(rows, session_id) ==
    IF session_id \in DOMAIN rows THEN Some(rows[session_id]) ELSE None

stop_drone_session(rows, session_id, summary, t) ==
    IF session_id \in DOMAIN rows
    THEN [rows EXCEPT ![session_id].stopped_at = Some(t),
                      ![session_id].summary = Some(summary)]
    ELSE rows

\* list_drone_detections(session_id=...)
list_drone_detections(rows, session_id) ==
    SelectSeq(rows, LAMBDA d : d.session_id = Some(session_id))

\* start_session creating a session whether or not one is active
start_session_AlwaysCreates(t) ==
    \E mode \in SessionModes, label \in SessionLabels, operator \in SessionOperators :
        /\ CanCall(t)
        /\ frames' = [frames EXCEPT ![t] =
               [NewFrame("start_session", "create", 0, operator) EXCEPT
                   !.args = Some([mode |-> mode, label |-> label, metadata |-> None])]]
        /\ calls' = calls + 1
        /\ UNCHANGED <<ops_vars, last_arm, probe, action_requests, action_audit_log,
                       policy, now, emitted, exec_log>>

\* start_session, lines 184-186: the active session, returned if there is one
start_session(t) ==
    \E mode \in SessionModes, label \in SessionLabels, operator \in SessionOperators :
        LET active == get_active_drone_session(drone_sessions)
            f == [NewFrame("start_session", "create", 0, operator) EXCEPT
                     !.args = Some([mode |-> mode, label |-> label, metadata |-> None])]
        IN  /\ CanCall(t)
            /\ frames' = [frames EXCEPT ![t] =
                   IF active # None THEN Return(f, active) ELSE f]
            /\ calls' = calls + 1
            /\ UNCHANGED <<ops_vars, last_arm, probe, action_requests, action_audit_log,
                           policy, now, emitted, exec_log>>

\* lines 188-193: create_drone_session(mode or 'passive', ...)
start_session_create(t) ==
    /\ frames[t].op = "start_session" /\ frames[t].pc = "create"
    /\ LET a == frames[t].args[1]
       IN  drone_sessions' = create_drone_session(drone_sessions,
               IF a.mode = << >> THEN s_passive ELSE a.mode,
               a.label, frames[t].who, a.metadata)
    /\ frames' = [frames EXCEPT ![t].pc = "read",
                                ![t].loc = Some([session_id |-> Len(drone_sessions) + 1])]
    /\ UNCHANGED <<manifest_vars, route_vars, ingest_vars, stream_vars, last_arm, probe, action_requests,
                   action_audit_log, policy, now, emitted, exec_log, calls>>

\* line 194: get_drone_session; without a row the call returns {}
start_session_read(t) ==
    /\ frames[t].op = "start_session" /\ frames[t].pc = "read"
    /\ LET session == get_drone_session(drone_sessions, frames[t].loc[1].session_id)
       IN  frames' = [frames EXCEPT ![t] =
               IF session # None
               THEN [@ EXCEPT !.pc = "emit", !.loc = Some([session |-> session[1]])]
               ELSE Return(@, Some([empty |-> TRUE]))]
    /\ UNCHANGED <<ops_vars, last_arm, probe, action_requests, action_audit_log, policy,
                   now, emitted, exec_log, calls>>

\* lines 195-197: emit session_started and return the session
start_session_emit(t) ==
    /\ frames[t].op = "start_session" /\ frames[t].pc = "emit"
    /\ emitted' = Append(emitted,
           Envelope("session_started", [session |-> frames[t].loc[1].session]))
    /\ frames' = [frames EXCEPT ![t] = Return(@, Some(frames[t].loc[1].session))]
    /\ UNCHANGED <<ops_vars, last_arm, probe, action_requests, action_audit_log, policy,
                   now, exec_log, calls>>

\* stop_session, lines 206-209: target_id = session_id or (active['id'] if active else None)
stop_session(t) ==
    \E operator \in SessionOperators, session_id \in SessionIdArgs,
       summary \in SessionSummaries :
        LET active == get_active_drone_session(drone_sessions)
            target_id == IF session_id # None /\ session_id[1] # 0 THEN session_id
                         ELSE IF active # None THEN Some(active[1].id) ELSE None
            f == [NewFrame("stop_session", "count", 0, operator) EXCEPT
                     !.args = Some([session_id |-> session_id, summary |-> summary])]
        IN  /\ CanCall(t)
            /\ frames' = [frames EXCEPT ![t] =
                   IF target_id = None \/ target_id[1] = 0 THEN Return(f, None)
                   ELSE [f EXCEPT !.pc = IF summary = None THEN "count" ELSE "stop",
                                  !.loc = Some([target_id |-> target_id[1],
                                                summary |-> summary])]]
            /\ calls' = calls + 1
            /\ UNCHANGED <<ops_vars, last_arm, probe, action_requests, action_audit_log,
                           policy, now, emitted, exec_log>>

\* lines 211-216: the summary made up when none was given
stop_session_count(t) ==
    /\ frames[t].op = "stop_session" /\ frames[t].pc = "count"
    /\ frames' = [frames EXCEPT
           ![t].pc = "stop",
           ![t].loc = Some([@[1] EXCEPT !.summary =
               Some([operator   |-> frames[t].who,
                     stopped_at |-> now,
                     detections |-> Len(list_drone_detections(drone_detections,
                                            frames[t].loc[1].target_id))])])]
    /\ UNCHANGED <<ops_vars, last_arm, probe, action_requests, action_audit_log, policy,
                   now, emitted, exec_log, calls>>

\* line 218: stop_drone_session
stop_session_stop(t) ==
    /\ frames[t].op = "stop_session" /\ frames[t].pc = "stop"
    /\ drone_sessions' = stop_drone_session(drone_sessions, frames[t].loc[1].target_id,
                                            frames[t].loc[1].summary[1], now)
    /\ frames' = [frames EXCEPT ![t].pc = "read"]
    /\ UNCHANGED <<manifest_vars, route_vars, ingest_vars, stream_vars, last_arm, probe, action_requests,
                   action_audit_log, policy, now, emitted, exec_log, calls>>

\* line 219: get_drone_session; without a row the call returns None
stop_session_read(t) ==
    /\ frames[t].op = "stop_session" /\ frames[t].pc = "read"
    /\ LET session == get_drone_session(drone_sessions, frames[t].loc[1].target_id)
       IN  frames' = [frames EXCEPT ![t] =
               IF session # None
               THEN [@ EXCEPT !.pc = "emit", !.loc = Some([session |-> session[1]])]
               ELSE Return(@, None)]
    /\ UNCHANGED <<ops_vars, last_arm, probe, action_requests, action_audit_log, policy,
                   now, emitted, exec_log, calls>>

\* lines 220-222: emit session_stopped and return the session
stop_session_emit(t) ==
    /\ frames[t].op = "stop_session" /\ frames[t].pc = "emit"
    /\ emitted' = Append(emitted,
           Envelope("session_stopped", [session |-> frames[t].loc[1].session]))
    /\ frames' = [frames EXCEPT ![t] = Return(@, Some(frames[t].loc[1].session))]
    /\ UNCHANGED <<ops_vars, last_arm, probe, action_requests, action_audit_log, policy,
                   now, exec_log, calls>>

InitSess ==
    /\ action_requests = << >>
    /\ action_audit_log = << >>
    /\ policy = Disarmed
    /\ now = 0
    /\ emitted = << >>
    /\ frames = [t \in SessCallers |-> IdleFrame]
    /\ exec_log = << >>
    /\ calls = 0
    /\ last_arm = None
    /\ probe = NoProbe
    /\ NoOps

InitSessConc ==
    /\ action_requests = << >>
    /\ action_audit_log = << >>
    /\ policy = Disarmed
    /\ now = 0
    /\ emitted = << >>
    /\ frames = [t \in SessConcCallers |-> IdleFrame]
    /\ exec_log = << >>
    /\ calls = 0
    /\ last_arm = None
    /\ probe = NoProbe
    /\ NoOps

NextSess ==
    \/ \E t \in Callers : start_session(t)
    \/ \E t \in Callers : start_session_create(t)
    \/ \E t \in Callers : start_session_read(t)
    \/ \E t \in Callers : start_session_emit(t)
    \/ \E t \in Callers : stop_session(t)
    \/ \E t \in Callers : stop_session_count(t)
    \/ \E t \in Callers : stop_session_stop(t)
    \/ \E t \in Callers : stop_session_read(t)
    \/ \E t \in Callers : stop_session_emit(t)

\* session calls, one at a time
SpecSess == InitSess /\ [][NextSess]_vars

\* session calls by two concurrent callers
SpecSessConc == InitSessConc /\ [][NextSess]_vars

---------------------------------------------------------------------------
(* Ingestion *)

s_wifi == <<"w","i","f","i">>
s_mac_a == <<"A","A">>
s_mac_b == <<"B","B">>
s_operator_id == <<"O","P">>

\* what detect_from_event gives for an event: an exception, or a list of detections
\* (the detectors of this repository give lists of none or one, ingest_event takes
\* any list); a detection may carry a track and a remote_id, each whole or in part
Position == [lat |-> Some(1), lon |-> Some(2)]
PositionNoLat == [lat |-> None, lon |-> Some(2)]
Detections ==
    { [source |-> s_wifi, identifier |-> s_mac_a, confidence |-> 80,
       track |-> None, remote_id |-> None],
      [source |-> s_wifi, identifier |-> s_mac_a, confidence |-> 60,
       track |-> Some(Position), remote_id |-> None],
      [source |-> s_wifi, identifier |-> s_mac_b, confidence |-> 80,
       track |-> Some(PositionNoLat),
       remote_id |-> Some([uas_id |-> Some(s_mac_b), operator_id |-> Some(s_operator_id)])],
      [source |-> s_wifi, identifier |-> s_mac_b, confidence |-> 60,
       track |-> None,
       remote_id |-> Some([uas_id |-> Some(s_mac_b), operator_id |-> None])] }
DetectionLists ==
    UNION {[1..n -> Detections] : n \in 0..MaxDetectionsPerEvent}
DetectorResults ==
    {[raised |-> TRUE, detections |-> << >>]}
        \cup {[raised |-> FALSE, detections |-> l] : l \in DetectionLists}

\* line 260: track with lat and lon
HasPosition(detection) ==
    /\ detection.track # None
    /\ detection.track[1].lat # None
    /\ detection.track[1].lon # None

\* line 274: remote_id with uas_id and operator_id
HasBinding(detection) ==
    /\ detection.remote_id # None
    /\ detection.remote_id[1].uas_id # None
    /\ detection.remote_id[1].operator_id # None

\* the store: upsert keyed on (session_id, source, identifier), returning row id
DetectionKeyRow(rows, session_id, source, identifier) ==
    {i \in DOMAIN rows : /\ rows[i].session_id = session_id
                         /\ rows[i].source = source
                         /\ rows[i].identifier = identifier}

upsert_drone_detection_id(rows, session_id, source, identifier) ==
    LET hit == DetectionKeyRow(rows, session_id, source, identifier)
    IN  IF hit = {} THEN Len(rows) + 1 ELSE CHOOSE i \in hit : TRUE

upsert_drone_detection(rows, session_id, source, identifier, confidence, remote_id, t) ==
    LET hit == DetectionKeyRow(rows, session_id, source, identifier)
    IN  IF hit = {}
        THEN Append(rows, [id |-> Len(rows) + 1, session_id |-> session_id,
                           source |-> source, identifier |-> identifier,
                           confidence |-> confidence, remote_id |-> remote_id,
                           last_seen |-> t])
        ELSE LET i == CHOOSE j \in hit : TRUE
             IN  [rows EXCEPT ![i].confidence = Max(@, confidence),
                              ![i].last_seen = t]

get_drone_detection(rows, detection_id) ==
    IF detection_id \in DOMAIN rows THEN Some(rows[detection_id]) ELSE None

add_drone_track(rows, detection_id, lat, lon) ==
    Append(rows, [detection_id |-> detection_id, lat |-> lat, lon |-> lon])

add_drone_correlation(rows, drone_identifier, operator_identifier, detection_id) ==
    Append(rows, [drone_identifier |-> drone_identifier,
                  operator_identifier |-> operator_identifier,
                  method |-> "remote_id_binding", detection_id |-> detection_id])

\* the call ends by an exception that reaches the caller
Raise(f, what) == Return(f, Some([exception |-> what]))

\* where the loop body goes after the row was read, after the track, after the correlation
AfterGet(detection, row) ==
    IF row # None /\ HasPosition(detection) THEN "track"
    ELSE IF HasBinding(detection) THEN "correlate"
    ELSE IF row # None THEN "emit" ELSE "done"
AfterTrack(detection) == IF HasBinding(detection) THEN "correlate" ELSE "emit"
AfterCorrelate(row) == IF row # None THEN "emit" ELSE "done"

\* line 250 and 'continue': the next detection of the list, or the end of the call
NextDetection(f) ==
    IF f.loc[1].rest = << >> THEN Return(f, None)
    ELSE [f EXCEPT !.pc = "upsert",
                   !.loc = Some([@[1] EXCEPT !.detection = Head(f.loc[1].rest),
                                             !.rest = Tail(f.loc[1].rest),
                                             !.detection_id = 0, !.row = None])]

\* the frame at position pc of the loop body, or at the next detection
LoopTo(f, pc) == IF pc = "done" THEN NextDetection(f) ELSE [f EXCEPT !.pc = pc]

\* ingest_event, lines 239-245: the detector; its exception and its empty list end the call
ingest_event(t) ==
    \E r \in DetectorResults :
        LET f == [NewFrame("ingest_event", "active", 0, << >>) EXCEPT
                     !.args = Some([mode |-> s_wifi, event_type |-> None])]
        IN  /\ CanCall(t)
            /\ frames' = [frames EXCEPT ![t] =
                   IF r.raised \/ r.detections = << >> THEN Return(f, None)
                   ELSE [f EXCEPT !.loc = Some([detection |-> Head(r.detections),
                                                rest |-> Tail(r.detections),
                                                session_id |-> None,
                                                detection_id |-> 0, row |-> None])]]
            /\ calls' = calls + 1
            /\ UNCHANGED <<ops_vars, last_arm, probe, action_requests, action_audit_log,
                           policy, now, emitted, exec_log>>

\* lines 247-248: get_active_drone_session, outside any try
ingest_event_active(t) ==
    /\ frames[t].op = "ingest_event" /\ frames[t].pc = "active"
    /\ \E ok \in BOOLEAN :
          LET active == get_active_drone_session(drone_sessions)
          IN  frames' = [frames EXCEPT ![t] =
                  IF ok
                  THEN [@ EXCEPT !.pc = "upsert",
                                 !.loc = Some([@[1] EXCEPT !.session_id =
                                     IF active # None THEN Some(active[1].id) ELSE None])]
                  ELSE Raise(@, "get_active_drone_session")]
    /\ UNCHANGED <<ops_vars, last_arm, probe, action_requests, action_audit_log, policy,
                   now, emitted, exec_log, calls>>

\* lines 252-260: upsert_drone_detection; its exception skips the detection
ingest_event_upsert(t) ==
    /\ frames[t].op = "ingest_event" /\ frames[t].pc = "upsert"
    /\ \E ok \in BOOLEAN :
          LET d   == frames[t].loc[1].detection
              sid == frames[t].loc[1].session_id
              id  == upsert_drone_detection_id(drone_detections, sid, d.source, d.identifier)
          IN  IF ok
              THEN /\ drone_detections' = upsert_drone_detection(drone_detections, sid,
                          d.source, d.identifier, d.confidence, d.remote_id, now)
                   /\ upsert_log' = Append(upsert_log, id)
                   /\ frames' = [frames EXCEPT
                          ![t].pc = "get",
                          ![t].loc = Some([@[1] EXCEPT !.detection_id = id])]
              ELSE /\ frames' = [frames EXCEPT ![t] = NextDetection(@)]
                   /\ UNCHANGED <<drone_detections, upsert_log>>
    /\ UNCHANGED <<manifest_vars, route_vars, drone_sessions, drone_tracks, drone_correlations, stream_vars,
                   last_arm,
                   probe, action_requests, action_audit_log, policy, now, emitted,
                   exec_log, calls>>

\* line 261: get_drone_detection
ingest_event_get(t) ==
    /\ frames[t].op = "ingest_event" /\ frames[t].pc = "get"
    /\ \E ok \in BOOLEAN :
          LET row == get_drone_detection(drone_detections, frames[t].loc[1].detection_id)
          IN  frames' = [frames EXCEPT ![t] =
                  IF ok
                  THEN LoopTo([@ EXCEPT !.loc = Some([@[1] EXCEPT !.row = row])],
                              AfterGet(frames[t].loc[1].detection, row))
                  ELSE NextDetection(@)]
    /\ UNCHANGED <<ops_vars, last_arm, probe, action_requests, action_audit_log, policy,
                   now, emitted, exec_log, calls>>

\* lines 263-274: add_drone_track
ingest_event_track(t) ==
    /\ frames[t].op = "ingest_event" /\ frames[t].pc = "track"
    /\ \E ok \in BOOLEAN :
          LET d == frames[t].loc[1].detection
          IN  IF ok
              THEN /\ drone_tracks' = add_drone_track(drone_tracks,
                          frames[t].loc[1].row[1].id, d.track[1].lat, d.track[1].lon)
                   /\ frames' = [frames EXCEPT ![t].pc = AfterTrack(d)]
              ELSE /\ frames' = [frames EXCEPT ![t] = NextDetection(@)]
                   /\ UNCHANGED drone_tracks
    /\ UNCHANGED <<manifest_vars, route_vars, drone_sessions, drone_detections, drone_correlations,
                   upsert_log, stream_vars, last_arm, probe, action_requests, action_audit_log, policy,
                   now, emitted, exec_log, calls>>

\* lines 276-290: add_drone_correlation
ingest_event_correlate(t) ==
    /\ frames[t].op = "ingest_event" /\ frames[t].pc = "correlate"
    /\ \E ok \in BOOLEAN :
          LET d   == frames[t].loc[1].detection
              row == frames[t].loc[1].row
          IN  IF ok
              THEN /\ drone_correlations' = add_drone_correlation(drone_correlations,
                          d.remote_id[1].uas_id[1], d.remote_id[1].operator_id[1],
                          IF row # None THEN Some(row[1].id) ELSE None)
                   /\ frames' = [frames EXCEPT ![t] = LoopTo(@, AfterCorrelate(row))]
              ELSE /\ frames' = [frames EXCEPT ![t] = NextDetection(@)]
                   /\ UNCHANGED drone_correlations
    /\ UNCHANGED <<manifest_vars, route_vars, drone_sessions, drone_detections, drone_tracks, upsert_log,
                   stream_vars,
                   last_arm, probe, action_requests, action_audit_log, policy, now,
                   emitted, exec_log, calls>>

\* lines 292-297: emit the detection event; the list is over and the call returns
ingest_event_emit(t) ==
    /\ frames[t].op = "ingest_event" /\ frames[t].pc = "emit"
    /\ emitted' = Append(emitted, Envelope("detection",
           [mode |-> frames[t].args[1].mode, event_type |-> frames[t].args[1].event_type,
            detection |-> frames[t].loc[1].row[1]]))
    /\ frames' = [frames EXCEPT ![t] = NextDetection(@)]
    /\ UNCHANGED <<ops_vars, last_arm, probe, action_requests, action_audit_log, policy,
                   now, exec_log, calls>>

\* events arrive with or without a session started (session 1, by op1, passive)
InitIngest ==
    /\ action_requests = << >>
    /\ action_audit_log = << >>
    /\ policy = Disarmed
    /\ now = 0
    /\ emitted = << >>
    /\ frames = [t \in IngestCallers |-> IdleFrame]
    /\ exec_log = << >>
    /\ calls = 0
    /\ last_arm = None
    /\ probe = NoProbe
    /\ drone_sessions \in {<< >>, create_drone_session(<< >>, s_passive, None, s_op1, None)}
    /\ drone_detections = << >>
    /\ drone_tracks = << >>
    /\ drone_correlations = << >>
    /\ drone_incidents = << >>
    /\ evidence_manifests = << >>
    /\ manifest_log = << >>
    /\ http = << >>
    /\ subscribers = {}
    /\ client_queues = << >>
    /\ streams = << >>
    /\ received = << >>
    /\ emit_overlap = {}
    /\ upsert_log = << >>

NextIngest ==
    \/ \E t \in Callers : ingest_event(t)
    \/ \E t \in Callers : ingest_event_active(t)
    \/ \E t \in Callers : ingest_event_upsert(t)
    \/ \E t \in Callers : ingest_event_get(t)
    \/ \E t \in Callers : ingest_event_track(t)
    \/ \E t \in Callers : ingest_event_correlate(t)
    \/ \E t \in Callers : ingest_event_emit(t)

SpecIngest == InitIngest /\ [][NextIngest]_vars

---------------------------------------------------------------------------
(* Streaming: _emit, the subscriber queues and the stream_events generators *)

\* queue.Queue(maxsize=500)
QueueMaxSize == 500

\* the n-th event handed to _emit
EventNo(n) == Envelope("event", [n |-> n])

\* a queue holding the events 1..n
QueueOf(n) == [i \in 1..n |-> EventNo(i)]

\* a generator in client_queue.get(timeout), with its queue registered
StartedStream == [pc |-> "get", yielded |-> None]

\* the streams whose yields are recorded; the others may take any number of events
Followed == DOMAIN received

\* the number of events recorded
RECURSIVE ReceivedCount(_)
ReceivedCount(seqs) ==
    IF seqs = << >> THEN 0 ELSE Len(Head(seqs)) + ReceivedCount(Tail(seqs))

\* received after stream s yielded an event; keepalives are not recorded
Receive(s, envelope) ==
    IF s \in Followed THEN [received EXCEPT ![s] = Append(@, envelope)] ELSE received

\* tuple(self._subscribers): the members of the set, in any order
Orders(S) ==
    {o \in [1..Cardinality(S) -> S] :
        \A i, j \in 1..Cardinality(S) : o[i] = o[j] => i = j}

\* the number of the event caller t's _emit delivers
EventOf(t) == frames[t].args[1].envelope.payload.n

\* the events whose _emit has not returned
Running ==
    {EventOf(t) : t \in {u \in Callers : frames[u].op = "_emit" /\ frames[u].pc # "done"}}

\* _emit, lines 72-78: the envelope, and the subscribers taken under _subs_lock
emit(t) ==
    /\ CanCall(t)
    /\ emitted' = Append(emitted, EventNo(Len(emitted) + 1))
    /\ emit_overlap' = emit_overlap \cup {<<a, Len(emitted) + 1>> : a \in Running}
    /\ \E todo \in Orders(subscribers) :
           frames' = [frames EXCEPT ![t] =
               IF subscribers = {}
               THEN Return([NewFrame("_emit", "done", 0, << >>) EXCEPT
                               !.args = Some([envelope |-> EventNo(Len(emitted) + 1)])],
                           None)
               ELSE [NewFrame("_emit", "put", 0, << >>) EXCEPT
                        !.args = Some([envelope |-> EventNo(Len(emitted) + 1)]),
                        !.loc = Some([todo |-> todo])]]
    /\ calls' = calls + 1
    /\ UNCHANGED <<manifest_vars, route_vars, drone_sessions, ingest_vars, subscribers, client_queues, streams,
                   received, last_arm, probe, action_requests, action_audit_log, policy,
                   now, exec_log>>

\* 'continue', and the end of the for loop: the next subscriber or the return
NextSubscriber(f) ==
    IF Len(f.loc[1].todo) = 1 THEN Return(f, None)
    ELSE [f EXCEPT !.pc = "put", !.loc = Some([todo |-> Tail(f.loc[1].todo)])]

\* sub.put_nowait(envelope) that reaches the head of the queue instead of its tail
emit_put_AtHead(t) ==
    /\ frames[t].op = "_emit" /\ frames[t].pc = "put"
    /\ LET q == Head(frames[t].loc[1].todo)
       IN  IF Len(client_queues[q]) < QueueMaxSize
           THEN /\ client_queues' = [client_queues EXCEPT
                       ![q] = <<frames[t].args[1].envelope>> \o @]
                /\ frames' = [frames EXCEPT ![t] = NextSubscriber(@)]
           ELSE /\ frames' = [frames EXCEPT ![t].pc = "drop"]
                /\ UNCHANGED client_queues
    /\ UNCHANGED <<manifest_vars, route_vars, drone_sessions, ingest_vars, subscribers, streams, received,
                   emit_overlap, last_arm, probe, action_requests, action_audit_log,
                   policy, now, emitted, exec_log, calls>>

\* lines 81-82: sub.put_nowait(envelope); queue.Full leads to the handler
emit_put(t) ==
    /\ frames[t].op = "_emit" /\ frames[t].pc = "put"
    /\ LET q == Head(frames[t].loc[1].todo)
       IN  IF Len(client_queues[q]) < QueueMaxSize
           THEN /\ client_queues' = [client_queues EXCEPT
                       ![q] = Append(@, frames[t].args[1].envelope)]
                /\ frames' = [frames EXCEPT ![t] = NextSubscriber(@)]
           ELSE /\ frames' = [frames EXCEPT ![t].pc = "drop"]
                /\ UNCHANGED client_queues
    /\ UNCHANGED <<manifest_vars, route_vars, drone_sessions, ingest_vars, subscribers, streams, received,
                   emit_overlap, last_arm, probe, action_requests, action_audit_log,
                   policy, now, emitted, exec_log, calls>>

\* a handler of queue.Full that gives the whole emit up
emit_drop_StopsAtFull(t) ==
    /\ frames[t].op = "_emit" /\ frames[t].pc = "drop"
    /\ frames' = [frames EXCEPT ![t] = Return(@, None)]
    /\ UNCHANGED <<manifest_vars, route_vars, drone_sessions, ingest_vars, stream_vars, last_arm, probe,
                   action_requests, action_audit_log, policy, now, emitted, exec_log,
                   calls>>

\* line 85: sub.get_nowait(); queue.Empty is caught at lines 87-88
emit_drop(t) ==
    /\ frames[t].op = "_emit" /\ frames[t].pc = "drop"
    /\ LET q == Head(frames[t].loc[1].todo)
       IN  IF client_queues[q] # << >>
           THEN /\ client_queues' = [client_queues EXCEPT ![q] = Tail(@)]
                /\ frames' = [frames EXCEPT ![t].pc = "retry"]
           ELSE /\ frames' = [frames EXCEPT ![t] = NextSubscriber(@)]
                /\ UNCHANGED client_queues
    /\ UNCHANGED <<manifest_vars, route_vars, drone_sessions, ingest_vars, subscribers, streams, received,
                   emit_overlap, last_arm, probe, action_requests, action_audit_log,
                   policy, now, emitted, exec_log, calls>>

\* line 86: sub.put_nowait(envelope) again; queue.Full is caught at lines 87-88
emit_retry(t) ==
    /\ frames[t].op = "_emit" /\ frames[t].pc = "retry"
    /\ LET q == Head(frames[t].loc[1].todo)
       IN  IF Len(client_queues[q]) < QueueMaxSize
           THEN client_queues' = [client_queues EXCEPT
                    ![q] = Append(@, frames[t].args[1].envelope)]
           ELSE UNCHANGED client_queues
    /\ frames' = [frames EXCEPT ![t] = NextSubscriber(@)]
    /\ UNCHANGED <<manifest_vars, route_vars, drone_sessions, ingest_vars, subscribers, streams, received,
                   emit_overlap, last_arm, probe, action_requests, action_audit_log,
                   policy, now, emitted, exec_log, calls>>

\* stream_events, lines 92-99, run by the consumer's first next(): the queue is made
\* and added to the set under _subs_lock, and the generator enters get
stream_events ==
    /\ Len(streams) < MaxStreams
    /\ client_queues' = Append(client_queues, << >>)
    /\ subscribers' = subscribers \cup {Len(streams) + 1}
    /\ streams' = Append(streams, StartedStream)
    /\ received' = Append(received, << >>)
    /\ UNCHANGED <<manifest_vars, route_vars, drone_sessions, ingest_vars, emit_overlap, last_arm, probe,
                   action_requests, action_audit_log, policy, now, emitted, frames,
                   exec_log, calls>>

\* a get that takes the newest event of the queue
stream_events_get_Newest(s) ==
    /\ streams[s].pc = "get"
    /\ client_queues[s] # << >>
    /\ client_queues' = [client_queues EXCEPT ![s] = SubSeq(@, 1, Len(@) - 1)]
    /\ streams' = [streams EXCEPT
           ![s] = [pc |-> "yield",
                   yielded |-> Some(client_queues[s][Len(client_queues[s])])]]
    /\ received' = Receive(s, client_queues[s][Len(client_queues[s])])
    /\ UNCHANGED <<manifest_vars, route_vars, drone_sessions, ingest_vars, subscribers, emit_overlap, last_arm,
                   probe, action_requests, action_audit_log, policy, now, emitted, frames,
                   exec_log, calls>>

\* line 100: client_queue.get returns the oldest event, which is yielded
stream_events_get(s) ==
    /\ streams[s].pc = "get"
    /\ client_queues[s] # << >>
    /\ client_queues' = [client_queues EXCEPT ![s] = Tail(@)]
    /\ streams' = [streams EXCEPT
           ![s] = [pc |-> "yield", yielded |-> Some(Head(client_queues[s]))]]
    /\ received' = Receive(s, Head(client_queues[s]))
    /\ UNCHANGED <<manifest_vars, route_vars, drone_sessions, ingest_vars, subscribers, emit_overlap, last_arm,
                   probe, action_requests, action_audit_log, policy, now, emitted, frames,
                   exec_log, calls>>

\* a handler of queue.Empty that leaves the loop
stream_events_keepalive_Ends(s) ==
    /\ streams[s].pc = "get"
    /\ client_queues[s] = << >>
    /\ streams' = [streams EXCEPT ![s] = [pc |-> "ended", yielded |-> None]]
    /\ subscribers' = subscribers \ {s}
    /\ UNCHANGED <<manifest_vars, route_vars, drone_sessions, ingest_vars, client_queues, received, emit_overlap,
                   last_arm, probe, action_requests, action_audit_log, policy, now,
                   emitted, frames, exec_log, calls>>

\* lines 100-102: the queue stayed empty for timeout seconds, client_queue.get raises
\* queue.Empty and a keepalive envelope is yielded
stream_events_keepalive(s) ==
    /\ streams[s].pc = "get"
    /\ client_queues[s] = << >>
    /\ streams' = [streams EXCEPT
           ![s] = [pc |-> "yield", yielded |-> Some(Envelope("keepalive", << >>))]]
    /\ UNCHANGED <<manifest_vars, route_vars, drone_sessions, ingest_vars, subscribers, client_queues, received,
                   emit_overlap, last_arm, probe, action_requests, action_audit_log,
                   policy, now, emitted, frames, exec_log, calls>>

\* the consumer's next(): the generator resumes after the yield, 'while True' (98);
\* the consumer of a followed stream asks for no more once MaxReceived events are
\* recorded
stream_events_next(s) ==
    /\ streams[s].pc = "yield"
    /\ s \in Followed => ReceivedCount(received) < MaxReceived
    /\ streams' = [streams EXCEPT ![s] = [pc |-> "get", yielded |-> None]]
    /\ UNCHANGED <<manifest_vars, route_vars, drone_sessions, ingest_vars, subscribers, client_queues, received,
                   emit_overlap, last_arm, probe, action_requests, action_audit_log,
                   policy, now, emitted, frames, exec_log, calls>>

\* an exit of the generator that skips the discard
stream_events_close_NoDiscard(s) ==
    /\ streams[s].pc = "yield"
    /\ streams' = [streams EXCEPT ![s] = [pc |-> "ended", yielded |-> None]]
    /\ UNCHANGED <<manifest_vars, route_vars, drone_sessions, ingest_vars, subscribers, client_queues, received,
                   emit_overlap, last_arm, probe, action_requests, action_audit_log,
                   policy, now, emitted, frames, exec_log, calls>>

\* close() or throw() by the consumer, as on a client disconnect: the exception is
\* raised at the yield, and the finally clause, lines 103-105, discards the queue
\* under _subs_lock
stream_events_close(s) ==
    /\ streams[s].pc = "yield"
    /\ streams' = [streams EXCEPT ![s] = [pc |-> "ended", yielded |-> None]]
    /\ subscribers' = subscribers \ {s}
    /\ UNCHANGED <<manifest_vars, route_vars, drone_sessions, ingest_vars, client_queues, received, emit_overlap,
                   last_arm, probe, action_requests, action_audit_log, policy, now,
                   emitted, frames, exec_log, calls>>

\* one stream in get, whose queue is empty, one short of full, or full after as many
\* events were emitted and none taken; its yields are not recorded
InitEmit ==
    \E n \in {0, QueueMaxSize - 1, QueueMaxSize} :
        /\ action_requests = << >>
        /\ action_audit_log = << >>
        /\ policy = Disarmed
        /\ now = 0
        /\ emitted = QueueOf(n)
        /\ frames = [t \in EmitCallers |-> IdleFrame]
        /\ exec_log = << >>
        /\ calls = 0
        /\ last_arm = None
        /\ probe = NoProbe
        /\ drone_sessions = << >>
        /\ drone_detections = << >>
        /\ drone_tracks = << >>
        /\ drone_correlations = << >>
        /\ drone_incidents = << >>
        /\ evidence_manifests = << >>
        /\ manifest_log = << >>
        /\ http = << >>
        /\ subscribers = {1}
        /\ client_queues = <<QueueOf(n)>>
        /\ streams = <<StartedStream>>
        /\ received = << >>
        /\ emit_overlap = {}
        /\ upsert_log = << >>

NextEmit ==
    \/ \E s \in DOMAIN streams : stream_events_get(s)
    \/ \E s \in DOMAIN streams : stream_events_keepalive(s)
    \/ \E s \in DOMAIN streams : stream_events_next(s)
    \/ \E t \in Callers : emit(t)
    \/ \E t \in Callers : emit_put(t)
    \/ \E t \in Callers : emit_drop(t)
    \/ \E t \in Callers : emit_retry(t)

SpecEmit == InitEmit /\ [][NextEmit]_vars

\* two emitters and two streams in get: the queue of the first is empty or full after
\* as many events were emitted and none taken, the queue of the second is empty
InitBus ==
    \E n \in {0, QueueMaxSize} :
        /\ action_requests = << >>
        /\ action_audit_log = << >>
        /\ policy = Disarmed
        /\ now = 0
        /\ emitted = QueueOf(n)
        /\ frames = [t \in BusCallers |-> IdleFrame]
        /\ exec_log = << >>
        /\ calls = 0
        /\ last_arm = None
        /\ probe = NoProbe
        /\ drone_sessions = << >>
        /\ drone_detections = << >>
        /\ drone_tracks = << >>
        /\ drone_correlations = << >>
        /\ drone_incidents = << >>
        /\ evidence_manifests = << >>
        /\ manifest_log = << >>
        /\ http = << >>
        /\ subscribers = {1, 2}
        /\ client_queues = <<QueueOf(n), << >> >>
        /\ streams = <<StartedStream, StartedStream>>
        /\ received = << << >>, << >> >>
        /\ emit_overlap = {}
        /\ upsert_log = << >>

NextBus ==
    \/ \E s \in DOMAIN streams : stream_events_get(s)
    \/ \E s \in DOMAIN streams : stream_events_keepalive(s)
    \/ \E s \in DOMAIN streams : stream_events_next(s)
    \/ \E s \in DOMAIN streams : stream_events_close(s)
    \/ \E t \in Callers : emit(t)
    \/ \E t \in Callers : emit_put(t)
    \/ \E t \in Callers : emit_drop(t)
    \/ \E t \in Callers : emit_retry(t)

SpecBus == InitBus /\ [][NextBus]_vars

\* every thread inside _emit is scheduled; nothing is assumed of the consumers
SpecBusFair ==
    SpecBus /\ \A t \in BusCallers : WF_vars(emit_put(t) \/ emit_drop(t) \/ emit_retry(t))

\* one emitter, and one stream in get whose queue is empty or full after as many
\* events were emitted and none taken; more streams start in the behaviour
InitStream ==
    \E n \in {0, QueueMaxSize} :
        /\ action_requests = << >>
        /\ action_audit_log = << >>
        /\ policy = Disarmed
        /\ now = 0
        /\ emitted = QueueOf(n)
        /\ frames = [t \in StreamCallers |-> IdleFrame]
        /\ exec_log = << >>
        /\ calls = 0
        /\ last_arm = None
        /\ probe = NoProbe
        /\ drone_sessions = << >>
        /\ drone_detections = << >>
        /\ drone_tracks = << >>
        /\ drone_correlations = << >>
        /\ drone_incidents = << >>
        /\ evidence_manifests = << >>
        /\ manifest_log = << >>
        /\ http = << >>
        /\ subscribers = {1}
        /\ client_queues = <<QueueOf(n)>>
        /\ streams = <<StartedStream>>
        /\ received = << << >> >>
        /\ emit_overlap = {}
        /\ upsert_log = << >>

NextStream ==
    \/ stream_events
    \/ \E s \in DOMAIN streams : stream_events_get(s)
    \/ \E s \in DOMAIN streams : stream_events_keepalive(s)
    \/ \E s \in DOMAIN streams : stream_events_next(s)
    \/ \E s \in DOMAIN streams : stream_events_close(s)
    \/ \E t \in Callers : emit(t)
    \/ \E t \in Callers : emit_put(t)
    \/ \E t \in Callers : emit_drop(t)
    \/ \E t \in Callers : emit_retry(t)

SpecStream == InitStream /\ [][NextStream]_vars

\* a generator inside client_queue.get(timeout) runs on: the get returns an event or
\* times out; nothing is assumed of the consumers or of the emitters
SpecStreamFair ==
    SpecStream /\ \A s \in 1..MaxStreams :
                     WF_vars(/\ s \in DOMAIN streams
                             /\ stream_events_get(s) \/ stream_events_keepalive(s))

---------------------------------------------------------------------------
(* Evidence manifests: JSON values, json.dumps, the digest and the builder *)

\* Python values as json sees them; a dict keeps its keys in insertion order
JNull == [k |-> "null"]
JInt(n) == [k |-> "int", int |-> n]
JStr(s) == [k |-> "str", str |-> s]
JList(items) == [k |-> "list", items |-> items]
JDict(pairs) == [k |-> "dict", pairs |-> pairs]

\* None or a str
JOptStr(x) == IF x = None THEN JNull ELSE JStr(x[1])

\* d[key] and d.get(key)
JGet(d, key) ==
    LET at == {i \in DOMAIN d.pairs : d.pairs[i][1] = key}
    IN  IF at = {} THEN None ELSE Some(d.pairs[CHOOSE i \in at : TRUE][2])

\* {**d, key: value}
JWith(d, key, value) ==
    IF JGet(d, key) = None
    THEN JDict(Append(d.pairs, <<key, value>>))
    ELSE JDict([i \in DOMAIN d.pairs |->
                   IF d.pairs[i][1] = key THEN <<key, value>> ELSE d.pairs[i]])

\* the printable ASCII characters, from code point 32 on
\* (code point 96, the grave accent, is held by a name: no input has it)
Ascii ==
    <<
      " ","!","\"","#","$","%","&","'","(",")","*","+",",","-",".","/",
      "0","1","2","3","4","5","6","7","8","9",":",";","<","=",">","?",
      "@","A","B","C","D","E","F","G","H","I","J","K","L","M","N","O",
      "P","Q","R","S","T","U","V","W","X","Y","Z","[","\\","]","^","_",
      "grave","a","b","c","d","e","f","g","h","i","j","k","l","m","n","o",
      "p","q","r","s","t","u","v","w","x","y","z","{","|","}","~" >>

\* the code point of each of these characters
CodePoints ==
    [c \in {Ascii[i] : i \in DOMAIN Ascii} |-> 31 + CHOOSE i \in DOMAIN Ascii : Ascii[i] = c]

\* ord(c)
CodePoint(c) == CodePoints[c]

\* str.encode('utf-8') of a str of ASCII characters
Utf8(s) == [i \in DOMAIN s |-> CodePoint(s[i])]

\* a < b on str: by code points, a proper prefix first
RECURSIVE StrLess(_, _)
StrLess(a, b) ==
    IF b = << >> THEN FALSE
    ELSE IF a = << >> THEN TRUE
    ELSE IF Head(a) = Head(b) THEN StrLess(Tail(a), Tail(b))
    ELSE CodePoint(Head(a)) < CodePoint(Head(b))

\* sorted(d.items()) of json.dumps(sort_keys=True)
RECURSIVE SortedPairs(_)
SortedPairs(pairs) ==
    IF pairs = << >> THEN << >>
    ELSE LET rest == SortedPairs(Tail(pairs))
         IN  SelectSeq(rest, LAMBDA q : StrLess(q[1], Head(pairs)[1]))
                 \o <<Head(pairs)>>
                 \o SelectSeq(rest, LAMBDA q : ~StrLess(q[1], Head(pairs)[1]))

\* the body of a JSON string: the quote and the backslash are escaped
RECURSIVE EscapeStr(_)
EscapeStr(s) ==
    IF s = << >> THEN << >>
    ELSE (IF Head(s) \in {"\"", "\\"} THEN <<"\\", Head(s)>> ELSE <<Head(s)>>)
             \o EscapeStr(Tail(s))

Quoted(s) == <<"\"">> \o EscapeStr(s) \o <<"\"">>

\* json.dumps(obj, sort_keys=sort_keys, separators=(',', ':'))
RECURSIVE json_dumps(_, _)
RECURSIVE DumpItems(_, _)
RECURSIVE DumpPairs(_, _)
DumpItems(items, sort_keys) ==
    IF items = << >> THEN << >>
    ELSE json_dumps(Head(items), sort_keys)
             \o (IF Tail(items) = << >> THEN << >>
                 ELSE <<",">> \o DumpItems(Tail(items), sort_keys))

DumpPairs(pairs, sort_keys) ==
    IF pairs = << >> THEN << >>
    ELSE Quoted(Head(pairs)[1]) \o <<":">> \o json_dumps(Head(pairs)[2], sort_keys)
             \o (IF Tail(pairs) = << >> THEN << >>
                 ELSE <<",">> \o DumpPairs(Tail(pairs), sort_keys))

json_dumps(obj, sort_keys) ==
    CASE obj.k = "null" -> <<"n","u","l","l">>
      [] obj.k = "int"  -> IntToStr(obj.int)
      [] obj.k = "str"  -> Quoted(obj.str)
      [] obj.k = "list" -> <<"[">> \o DumpItems(obj.items, sort_keys) \o <<"]">>
      [] obj.k = "dict" ->
             <<"{">> \o DumpPairs(IF sort_keys THEN SortedPairs(obj.pairs) ELSE obj.pairs,
                                  sort_keys) \o <<"}">>

HexDigits == <<"0","1","2","3","4","5","6","7","8","9","a","b","c","d","e","f">>

\* the bytes lo..hi folded into one number, and the weight of a block of that
\* length: <<sum of bytes[i] * 31^(hi - i), 31^(hi - lo + 1)>> modulo 32749
RECURSIVE Mix(_, _, _)
Mix(bytes, lo, hi) ==
    IF lo > hi THEN <<0, 1>>
    ELSE IF lo = hi THEN <<bytes[lo] % 32749, 31>>
    ELSE LET mid == (lo + hi) \div 2
             l == Mix(bytes, lo, mid)
             r == Mix(bytes, mid + 1, hi)
         IN  <<(l[1] * r[2] + r[1]) % 32749, (l[2] * r[2]) % 32749>>

\* n hexadecimal digits drawn from h
RECURSIVE HexOf(_, _)
HexOf(h, n) ==
    IF n = 0 THEN << >>
    ELSE <<HexDigits[(h % 16) + 1]>> \o HexOf((h * 75 + 74) % 65537, n - 1)

\* hashlib.sha256(data).hexdigest(): the digest function is not part of the
\* repository; a fixed function of the bytes that gives 64 hexadecimal digits stands
\* in for it
sha256_hexdigest(bytes) ==
    LET m == Mix(bytes, 1, Len(bytes)) IN HexOf((7 * m[2] + m[1]) % 32749, 64)

\* the keys and literals of the builder and of the rows
k_generated_at == <<"g","e","n","e","r","a","t","e","d","_","a","t">>
k_incident == <<"i","n","c","i","d","e","n","t">>
k_id == <<"i","d">>
k_title == <<"t","i","t","l","e">>
k_status == <<"s","t","a","t","u","s">>
k_severity == <<"s","e","v","e","r","i","t","y">>
k_opened_at == <<"o","p","e","n","e","d","_","a","t">>
k_closed_at == <<"c","l","o","s","e","d","_","a","t">>
k_artifact_count == <<"a","r","t","i","f","a","c","t","_","c","o","u","n","t">>
k_action_request_count == <<"a","c","t","i","o","n","_","r","e","q","u","e","s","t","_","c","o","u","n","t">>
k_audit_event_count == <<"a","u","d","i","t","_","e","v","e","n","t","_","c","o","u","n","t">>
k_artifacts == <<"a","r","t","i","f","a","c","t","s">>
k_action_requests == <<"a","c","t","i","o","n","_","r","e","q","u","e","s","t","s">>
k_action_audit == <<"a","c","t","i","o","n","_","a","u","d","i","t">>
k_integrity == <<"i","n","t","e","g","r","i","t","y">>
k_algorithm == <<"a","l","g","o","r","i","t","h","m">>
k_digest == <<"d","i","g","e","s","t">>
k_incident_id == <<"i","n","c","i","d","e","n","t","_","i","d">>
k_artifact_type == <<"a","r","t","i","f","a","c","t","_","t","y","p","e">>
k_artifact_ref == <<"a","r","t","i","f","a","c","t","_","r","e","f">>
k_added_by == <<"a","d","d","e","d","_","b","y">>
k_action_type == <<"a","c","t","i","o","n","_","t","y","p","e">>
k_requested_by == <<"r","e","q","u","e","s","t","e","d","_","b","y">>
k_approvals == <<"a","p","p","r","o","v","a","l","s">>
k_executed_by == <<"e","x","e","c","u","t","e","d","_","b","y">>
k_approved_by == <<"a","p","p","r","o","v","e","d","_","b","y">>
k_decision == <<"d","e","c","i","s","i","o","n">>
k_request_id == <<"r","e","q","u","e","s","t","_","i","d">>
k_event_type == <<"e","v","e","n","t","_","t","y","p","e">>
k_actor == <<"a","c","t","o","r">>
s_sha256 == <<"s","h","a","2","5","6">>
s_pending == <<"p","e","n","d","i","n","g">>
s_executed == <<"e","x","e","c","u","t","e","d">>
s_requested == <<"r","e","q","u","e","s","t","e","d">>
s_approval == <<"a","p","p","r","o","v","a","l">>
s_open == <<"o","p","e","n">>
s_high == <<"h","i","g","h">>
s_detection == <<"d","e","t","e","c","t","i","o","n">>
s_analyst1 == <<"a","n","a","l","y","s","t","1">>
s_sig == <<"s","i","g">>
s_title_plain == <<"U","A","S">>
s_title_quoted == <<"U","A","S"," ","\"","A","\"">>

\* the caller of the manifest builder and of add_incident_artifact
ManifestCallers == {"m1"}

\* the inputs of the calls: incident 2 does not exist
ManifestIncidentIds == {1, 2}
\* who calls and the signature supplied: an analyst without one, an operator with one
ManifestInputs == {[created_by |-> s_analyst1, signature |-> None],
                   [created_by |-> s_op1, signature |-> Some(s_sig)]}
ArtifactRefs == {<<"1">>}

\* the text of a status and of an audit event type
StatusText(status) ==
    CASE status = "pending"  -> s_pending
      [] status = "approved" -> s_approved
      [] status = "rejected" -> s_rejected
      [] status = "executed" -> s_executed

EventTypeText(event_type) ==
    CASE event_type = "requested" -> s_requested
      [] event_type = "approval"  -> s_approval
      [] event_type = "executed"  -> s_executed

Reverse(s) == [i \in DOMAIN s |-> s[Len(s) + 1 - i]]

\* the keys of a row dict as the store hands it out: in column order or in the
\* opposite order
Ordered(pairs, reversed) == IF reversed THEN Reverse(pairs) ELSE pairs

\* the dict of a row of drone_incident_artifacts
ArtifactJson(a, reversed) ==
    JDict(Ordered(<< <<k_id, JInt(a.id)>>,
                     <<k_incident_id, JInt(a.incident_id)>>,
                     <<k_artifact_type, JStr(a.artifact_type)>>,
                     <<k_artifact_ref, JStr(a.artifact_ref)>>,
                     <<k_added_by, JStr(a.added_by)>> >>, reversed))

\* the dict of an approval embedded in a request
ApprovalJson(a, reversed) ==
    JDict(Ordered(<< <<k_approved_by, JStr(a.approved_by)>>,
                     <<k_decision, JStr(a.decision)>> >>, reversed))

\* the dict of a row of action_requests
RequestJson(r, reversed) ==
    JDict(Ordered(<< <<k_id, JInt(r.id)>>,
                     <<k_incident_id, JInt(r.incident_id)>>,
                     <<k_action_type, JStr(r.action_type)>>,
                     <<k_requested_by, JStr(r.requested_by)>>,
                     <<k_status, JStr(StatusText(r.status))>>,
                     <<k_approvals,
                       JList([i \in DOMAIN r.approvals |->
                                 ApprovalJson(r.approvals[i], reversed)])>>,
                     <<k_executed_by, JOptStr(r.executed_by)>> >>, reversed))

\* the dict of a row of action_audit_log
AuditJson(e, reversed) ==
    JDict(Ordered(<< <<k_request_id, JInt(e.request_id)>>,
                     <<k_event_type, JStr(EventTypeText(e.event_type))>>,
                     <<k_actor, JStr(e.actor)>> >>, reversed))

\* create_drone_incident: status 'open', no artifact
create_drone_incident(rows, title, severity, t) ==
    Append(rows, [id |-> Len(rows) + 1, title |-> title, status |-> s_open,
                  severity |-> severity, opened_at |-> IntToStr(t), closed_at |-> None,
                  artifacts |-> << >>])

\* add_drone_incident_artifact: one more artifact of the incident
add_drone_incident_artifact(rows, incident_id, artifact_type, artifact_ref, added_by) ==
    IF incident_id \in DOMAIN rows
    THEN [rows EXCEPT ![incident_id].artifacts =
              Append(@, [id |-> Len(@) + 1, incident_id |-> incident_id,
                         artifact_type |-> artifact_type, artifact_ref |-> artifact_ref,
                         added_by |-> added_by])]
    ELSE rows

\* get_drone_incident: the row with its artifacts as dicts, or None
get_drone_incident(rows, incident_id, reversed) ==
    IF incident_id \in DOMAIN rows
    THEN Some([rows[incident_id] EXCEPT
                  !.artifacts = [i \in DOMAIN @ |-> ArtifactJson(@[i], reversed)]])
    ELSE None

\* list_action_requests(incident_id=...): the rows of the incident
list_action_requests(rows, incident_id) ==
    SelectSeq(rows, LAMBDA r : r.incident_id = incident_id)

\* create_evidence_manifest: one more row
create_evidence_manifest(rows, incident_id, manifest, hash_algo, signature, created_by) ==
    Append(rows, [id |-> Len(rows) + 1, incident_id |-> incident_id,
                  manifest |-> manifest, hash_algo |-> hash_algo,
                  signature |-> signature, created_by |-> created_by])

\* get_evidence_manifest
get_evidence_manifest(rows, manifest_id) ==
    IF manifest_id \in DOMAIN rows THEN Some(rows[manifest_id]) ELSE None

\* lines 568-584: the manifest body
ManifestCore(generated_at, incident, requests, audit) ==
    JDict(<< <<k_generated_at, JStr(generated_at)>>,
             <<k_incident,
               JDict(<< <<k_id, JInt(incident.id)>>,
                        <<k_title, JStr(incident.title)>>,
                        <<k_status, JStr(incident.status)>>,
                        <<k_severity, JStr(incident.severity)>>,
                        <<k_opened_at, JStr(incident.opened_at)>>,
                        <<k_closed_at, JOptStr(incident.closed_at)>> >>)>>,
             <<k_artifact_count, JInt(Len(incident.artifacts))>>,
             <<k_action_request_count, JInt(Len(requests))>>,
             <<k_audit_event_count, JInt(Len(audit))>>,
             <<k_artifacts, JList(incident.artifacts)>>,
             <<k_action_requests, JList(requests)>>,
             <<k_action_audit, JList(audit)>> >>)

\* a canonical string that keeps the keys in insertion order
Canonical_Unsorted(manifest_core) == json_dumps(manifest_core, FALSE)

\* line 586: json.dumps(manifest_core, sort_keys=True, separators=(',', ':'))
Canonical(manifest_core) == json_dumps(manifest_core, TRUE)

\* lines 587-595: the digest and the manifest with its integrity field
WithIntegrity(manifest_core, canonical) ==
    JWith(manifest_core, k_integrity,
          JDict(<< <<k_algorithm, JStr(s_sha256)>>,
                   <<k_digest, JStr(sha256_hexdigest(Utf8(canonical)))>> >>))

\* generate_evidence_manifest, lines 558-560: the incident is read; reversed is the
\* key order of the dicts that the store hands out to this call
generate_evidence_manifest(t) ==
    /\ CanCall(t)
    /\ \E incident_id \in ManifestIncidentIds, input \in ManifestInputs,
          reversed \in BOOLEAN :
          LET incident == get_drone_incident(drone_incidents, incident_id, reversed)
              f == [NewFrame("generate_evidence_manifest", "requests", 0, input.created_by)
                       EXCEPT !.args = Some([incident_id |-> incident_id,
                                             signature |-> input.signature])]
          IN  frames' = [frames EXCEPT ![t] =
                  IF incident = None THEN Return(f, None)
                  ELSE [f EXCEPT !.loc = Some([incident |-> incident[1],
                                               reversed |-> reversed,
                                               action_requests |-> << >>,
                                               request_ids |-> << >>,
                                               action_audit |-> << >>])]]
    /\ calls' = calls + 1
    /\ UNCHANGED <<ops_vars, last_arm, probe, action_requests, action_audit_log, policy,
                   now, emitted, exec_log>>

\* lines 562-563: the requests of the incident and their ids
generate_evidence_manifest_requests(t) ==
    /\ frames[t].op = "generate_evidence_manifest" /\ frames[t].pc = "requests"
    /\ LET rows == list_action_requests(action_requests, frames[t].args[1].incident_id)
           reversed == frames[t].loc[1].reversed
       IN  frames' = [frames EXCEPT
               ![t].pc = IF rows = << >> THEN "create" ELSE "audit",
               ![t].loc = Some([@[1] EXCEPT
                   !.action_requests =
                       [i \in DOMAIN rows |-> RequestJson(rows[i], reversed)],
                   !.request_ids = [i \in DOMAIN rows |-> rows[i].id]])]
    /\ UNCHANGED <<ops_vars, last_arm, probe, action_requests, action_audit_log, policy,
                   now, emitted, exec_log, calls>>

\* lines 564-566: the audit entries of the next request
generate_evidence_manifest_audit(t) ==
    /\ frames[t].op = "generate_evidence_manifest" /\ frames[t].pc = "audit"
    /\ LET l == frames[t].loc[1]
           rows == list_action_audit_logs(action_audit_log, Head(l.request_ids))
       IN  frames' = [frames EXCEPT
               ![t].pc = IF Tail(l.request_ids) = << >> THEN "create" ELSE "audit",
               ![t].loc = Some([l EXCEPT
                   !.request_ids = Tail(@),
                   !.action_audit =
                       @ \o [i \in DOMAIN rows |-> AuditJson(rows[i], l.reversed)]])]
    /\ UNCHANGED <<ops_vars, last_arm, probe, action_requests, action_audit_log, policy,
                   now, emitted, exec_log, calls>>

\* the builder with a canonical string in insertion order
generate_evidence_manifest_create_Unsorted(t) ==
    /\ frames[t].op = "generate_evidence_manifest" /\ frames[t].pc = "create"
    /\ LET l == frames[t].loc[1]
           a == frames[t].args[1]
           manifest_core ==
               ManifestCore(IntToStr(now), l.incident, l.action_requests, l.action_audit)
           canonical == Canonical_Unsorted(manifest_core)
           manifest == WithIntegrity(manifest_core, canonical)
       IN  /\ evidence_manifests' =
                  create_evidence_manifest(evidence_manifests, a.incident_id, manifest,
                                           s_sha256, a.signature, frames[t].who)
           /\ manifest_log' = Append(manifest_log,
                  [incident_id |-> a.incident_id, generated_at |-> now,
                   incidents |-> drone_incidents, requests |-> action_requests,
                   audit |-> action_audit_log, canonical |-> canonical,
                   digest |-> sha256_hexdigest(Utf8(canonical)),
                   created_by |-> frames[t].who, signature |-> a.signature,
                   reversed |-> l.reversed])
           /\ frames' = [frames EXCEPT ![t].pc = "read"]
    /\ UNCHANGED <<drone_incidents, route_vars, drone_sessions, ingest_vars, stream_vars, last_arm,
                   probe, action_requests, action_audit_log, policy, now, emitted,
                   exec_log, calls>>

\* lines 568-603: the body, the canonical string, the digest, and the row persisted
generate_evidence_manifest_create(t) ==
    /\ frames[t].op = "generate_evidence_manifest" /\ frames[t].pc = "create"
    /\ LET l == frames[t].loc[1]
           a == frames[t].args[1]
           manifest_core ==
               ManifestCore(IntToStr(now), l.incident, l.action_requests, l.action_audit)
           canonical == Canonical(manifest_core)
           manifest == WithIntegrity(manifest_core, canonical)
       IN  /\ evidence_manifests' =
                  create_evidence_manifest(evidence_manifests, a.incident_id, manifest,
                                           s_sha256, a.signature, frames[t].who)
           /\ manifest_log' = Append(manifest_log,
                  [incident_id |-> a.incident_id, generated_at |-> now,
                   incidents |-> drone_incidents, requests |-> action_requests,
                   audit |-> action_audit_log, canonical |-> canonical,
                   digest |-> sha256_hexdigest(Utf8(canonical)),
                   created_by |-> frames[t].who, signature |-> a.signature,
                   reversed |-> l.reversed])
           /\ frames' = [frames EXCEPT ![t].pc = "read"]
    /\ UNCHANGED <<drone_incidents, route_vars, drone_sessions, ingest_vars, stream_vars, last_arm,
                   probe, action_requests, action_audit_log, policy, now, emitted,
                   exec_log, calls>>

\* lines 605-608: the row is read back, emitted and returned
generate_evidence_manifest_read(t) ==
    /\ frames[t].op = "generate_evidence_manifest" /\ frames[t].pc = "read"
    /\ LET stored == get_evidence_manifest(evidence_manifests, Len(evidence_manifests))
       IN  /\ emitted' = IF stored = None THEN emitted
                         ELSE Append(emitted, Envelope("evidence_manifest_created",
                                                       [manifest |-> stored[1]]))
           /\ frames' = [frames EXCEPT ![t] = Return(@, stored)]
    /\ UNCHANGED <<ops_vars, last_arm, probe, action_requests, action_audit_log, policy,
                   now, exec_log, calls>>

\* add_incident_artifact, lines 414-435: the artifact is stored and emitted
add_incident_artifact(t) ==
    /\ CanCall(t)
    /\ \E incident_id \in {1}, artifact_ref \in ArtifactRefs :
          /\ drone_incidents' = add_drone_incident_artifact(
                 drone_incidents, incident_id, s_detection, artifact_ref, s_op1)
          /\ emitted' = Append(emitted, Envelope("incident_artifact_added",
                 [artifact |-> [incident_id |-> incident_id, artifact_ref |-> artifact_ref]]))
          /\ frames' = [frames EXCEPT ![t] =
                 Return(NewFrame("add_incident_artifact", "done", 0, s_op1), None)]
    /\ calls' = calls + 1
    /\ UNCHANGED <<evidence_manifests, manifest_log, route_vars, drone_sessions, ingest_vars,
                   stream_vars, last_arm, probe, action_requests, action_audit_log,
                   policy, now, exec_log>>

\* the clock advances between two calls
TickManifest ==
    /\ now < MaxClock
    /\ \A t \in Callers : frames[t].pc = "done"
    /\ now' = now + 1
    /\ UNCHANGED <<ops_vars, last_arm, probe, action_requests, action_audit_log, policy,
                   emitted, frames, exec_log, calls>>

\* one incident: titled without quotes and with no request, or titled with quotes
\* and with one request and its audit entry
InitManifest ==
    /\ action_requests \in
           {<< >>, create_action_request(<< >>, 1, s_wifi_deauth_test, s_op1)}
    /\ action_audit_log =
           IF action_requests = << >> THEN << >>
           ELSE add_action_audit_log(<< >>, 1, "requested", s_op1)
    /\ policy = Disarmed
    /\ now = 0
    /\ emitted = << >>
    /\ frames = [t \in ManifestCallers |-> IdleFrame]
    /\ exec_log = << >>
    /\ calls = 0
    /\ last_arm = None
    /\ probe = NoProbe
    /\ drone_sessions = << >>
    /\ drone_detections = << >>
    /\ drone_tracks = << >>
    /\ drone_correlations = << >>
    /\ upsert_log = << >>
    /\ subscribers = {}
    /\ client_queues = << >>
    /\ streams = << >>
    /\ received = << >>
    /\ emit_overlap = {}
    /\ drone_incidents =
           create_drone_incident(<< >>, IF action_requests = << >> THEN s_title_plain
                                        ELSE s_title_quoted, s_high, 0)
    /\ evidence_manifests = << >>
    /\ manifest_log = << >>
    /\ http = << >>

NextManifest ==
    \/ TickManifest
    \/ \E t \in Callers : add_incident_artifact(t)
    \/ \E t \in Callers : generate_evidence_manifest(t)
    \/ \E t \in Callers : generate_evidence_manifest_requests(t)
    \/ \E t \in Callers : generate_evidence_manifest_audit(t)
    \/ \E t \in Callers : generate_evidence_manifest_create(t)
    \/ \E t \in Callers : generate_evidence_manifest_read(t)

SpecManifest == InitManifest /\ [][NextManifest]_vars

---------------------------------------------------------------------------
(* The routes: require_role, require_armed and the handlers *)

s_viewer     == <<"v","i","e","w","e","r">>
s_analyst    == <<"a","n","a","l","y","s","t">>
s_operator   == <<"o","p","e","r","a","t","o","r">>
s_supervisor == <<"s","u","p","e","r","v","i","s","o","r">>
s_admin      == <<"a","d","m","i","n">>
s_root       == <<"r","o","o","t">>
s_Admin_padded == <<" ","A","d","m","i","n"," ">>
s_role_required == <<" ","r","o","l","e"," ","r","e","q","u","i","r","e","d">>
s_decision_invalid == <<"decision must be approved or rejected">>
s_incident_required == <<"incident_id is required">>
s_incident_not_found == <<"Incident not found">>
s_mode_invalid == <<"mode must be passive or active">>

\* the thread that serves the HTTP requests
RouteCallers == {"r1"}

\* authz.py lines 10-16
ROLE_LEVELS ==
    [r \in {s_viewer, s_analyst, s_operator, s_supervisor, s_admin} |->
        CASE r = s_viewer     -> 10
          [] r = s_analyst    -> 20
          [] r = s_operator   -> 30
          [] r = s_supervisor -> 40
          [] r = s_admin      -> 50]

\* session.get('role'): absent, the five roles, a name that is no role, and a role
\* written with spaces and a capital
SessionRoles ==
    {None, Some(s_viewer), Some(s_analyst), Some(s_operator), Some(s_supervisor),
     Some(s_admin), Some(s_root), Some(s_Admin_padded)}

\* current_role, lines 24-27
current_role(session_role) ==
    LET role == Lower(Strip(IF session_role = None \/ session_role[1] = << >>
                            THEN s_viewer ELSE session_role[1]))
    IN  IF role \in DOMAIN ROLE_LEVELS THEN role ELSE s_viewer

\* has_role that asks for a level above the required one
has_role_Strict(session_role, required_role) ==
    LET required == IF required_role \in DOMAIN ROLE_LEVELS
                    THEN ROLE_LEVELS[required_role] ELSE ROLE_LEVELS[s_admin]
        actual   == IF current_role(session_role) \in DOMAIN ROLE_LEVELS
                    THEN ROLE_LEVELS[current_role(session_role)]
                    ELSE ROLE_LEVELS[s_viewer]
    IN  actual > required

\* has_role, lines 30-34
has_role(session_role, required_role) ==
    LET required == IF required_role \in DOMAIN ROLE_LEVELS
                    THEN ROLE_LEVELS[required_role] ELSE ROLE_LEVELS[s_admin]
        actual   == IF current_role(session_role) \in DOMAIN ROLE_LEVELS
                    THEN ROLE_LEVELS[current_role(session_role)]
                    ELSE ROLE_LEVELS[s_viewer]
    IN  actual >= required

\* the endpoints modelled and the role each one is decorated with
Routes ==
    {"start_session", "actions_arm", "actions_request", "actions_approve",
     "actions_execute", "actions_list", "actions_get"}

RequiredRole(route) ==
    CASE route = "start_session"   -> s_operator
      [] route = "actions_arm"     -> s_operator
      [] route = "actions_request" -> s_operator
      [] route = "actions_approve" -> s_supervisor
      [] route = "actions_execute" -> s_operator
      [] route = "actions_list"    -> s_viewer
      [] route = "actions_get"     -> s_viewer

\* the request ids of the URLs: the rows there can be and one that is missing
RouteRequestIds == 1..(MaxRequests + 1)

\* the JSON body of a response: the keys it has
NoBody ==
    [message |-> None, required_role |-> None, current_role |-> None, policy |-> None,
     request |-> None, requests |-> None, session |-> None]

\* a response: the endpoint and session role of its request, the decorator or handler
\* that returned it, its status and its body
Response(h, by, status, body) ==
    [route |-> h.route, session_role |-> h.session_role, by |-> by, status |-> status,
     body |-> body]

\* no request in progress
IdleHttp == [route |-> "none", session_role |-> None, stage |-> "idle", at |-> 0,
             response |-> None]

\* the request of the caller is answered
Responded(h, by, status, body) ==
    [IdleHttp EXCEPT !.stage = "responded",
                     !.response = Some(Response(h, by, status, body))]

Respond(t, by, status, body) ==
    http' = [http EXCEPT ![t] = Responded(http[t], by, status, body)]

\* the handler of the endpoint has been entered and has not called the service yet
InHandler(t, route) ==
    /\ http[t].stage = "handler"
    /\ http[t].route = route
    /\ calls = http[t].at

\* the service call of the handler has returned
HandlerReturned(t, route, op) ==
    /\ http[t].stage = "handler"
    /\ http[t].route = route
    /\ calls > http[t].at
    /\ frames[t].op = op
    /\ frames[t].pc = "done"

\* require_role, authz.py lines 37-54: a request arrives at an endpoint
require_role(t) ==
    /\ http[t].stage = "idle"
    /\ frames[t].pc = "done"
    /\ calls < Budget
    /\ \E route \in Routes, session_role \in SessionRoles :
          LET h == [route |-> route, session_role |-> session_role,
                    stage |-> IF route = "actions_execute" THEN "require_armed"
                              ELSE "handler",
                    at |-> calls, response |-> None]
          IN  http' = [http EXCEPT ![t] =
                  IF ~has_role(session_role, RequiredRole(route))
                  THEN Responded(h, "require_role", 403,
                           [NoBody EXCEPT
                               !.message = Some(RequiredRole(route) \o s_role_required),
                               !.required_role = Some(RequiredRole(route)),
                               !.current_role = Some(current_role(session_role))])
                  ELSE h]
    /\ UNCHANGED <<drone_sessions, ingest_vars, stream_vars, manifest_vars, last_arm, probe,
                   action_requests, action_audit_log, policy, now, emitted, frames,
                   exec_log, calls>>

\* require_armed, authz.py lines 57-74: get_policy_state, then 403 or the handler
require_armed(t) ==
    /\ http[t].stage = "require_armed"
    /\ policy' = PolicyAfterRead(policy, now)
    /\ LET state == _policy_state_locked(policy, now)
       IN  IF ~state.armed
           THEN Respond(t, "require_armed", 403,
                        [NoBody EXCEPT !.message = Some(s_not_armed),
                                       !.policy = Some(state)])
           ELSE http' = [http EXCEPT ![t].stage = "handler"]
    /\ UNCHANGED <<drone_sessions, ingest_vars, stream_vars, manifest_vars, last_arm, probe,
                   action_requests, action_audit_log, now, emitted, frames, exec_log,
                   calls>>

\* the response has gone to the client
send_response(t) ==
    /\ http[t].stage = "responded"
    /\ http' = [http EXCEPT ![t] = IdleHttp]
    /\ UNCHANGED <<drone_sessions, ingest_vars, stream_vars, manifest_vars, last_arm, probe,
                   action_requests, action_audit_log, policy, now, emitted, frames,
                   exec_log, calls>>

\* the handler changes nothing but the response
HandlerOnly ==
    UNCHANGED <<drone_sessions, ingest_vars, stream_vars, manifest_vars, last_arm, probe,
                action_requests, action_audit_log, policy, now, emitted, frames,
                exec_log, calls>>

\* start_session of the routes, lines 48-66: the mode is checked, the service called
session_start(t) ==
    /\ InHandler(t, "start_session")
    /\ start_session(t)
    /\ frames'[t].args[1].mode = s_active

session_start_invalid(t) ==
    /\ InHandler(t, "start_session")
    /\ Respond(t, "handler", 400, [NoBody EXCEPT !.message = Some(s_mode_invalid)])
    /\ HandlerOnly

session_start_respond(t) ==
    /\ HandlerReturned(t, "start_session", "start_session")
    /\ Respond(t, "handler", 200, [NoBody EXCEPT !.session = frames[t].ret])
    /\ HandlerOnly

\* actions_arm, lines 269-294
actions_arm(t) ==
    /\ InHandler(t, "actions_arm")
    /\ arm_actions(t)

\* no reason, no incident_id, or an incident that does not exist
actions_arm_invalid(t) ==
    /\ InHandler(t, "actions_arm")
    /\ \E status \in {400, 404} :
          Respond(t, "handler", status,
                  [NoBody EXCEPT !.message = Some(IF status = 404 THEN s_incident_not_found
                                                  ELSE s_incident_required)])
    /\ HandlerOnly

actions_arm_respond(t) ==
    /\ HandlerReturned(t, "actions_arm", "arm_actions")
    /\ Respond(t, "handler", 200, [NoBody EXCEPT !.policy = frames[t].ret])
    /\ HandlerOnly

\* actions_request, lines 307-332
actions_request(t) ==
    /\ InHandler(t, "actions_request")
    /\ request_action(t)

\* no incident_id, no action_type, or an incident that does not exist
actions_request_invalid(t) ==
    /\ InHandler(t, "actions_request")
    /\ \E status \in {400, 404} :
          Respond(t, "handler", status,
                  [NoBody EXCEPT !.message = Some(IF status = 404 THEN s_incident_not_found
                                                  ELSE s_incident_required)])
    /\ HandlerOnly

actions_request_respond(t) ==
    /\ HandlerReturned(t, "actions_request", "request_action")
    /\ Respond(t, "handler", 201, [NoBody EXCEPT !.request = frames[t].ret])
    /\ HandlerOnly

\* actions_approve, lines 335-354
actions_approve(t) ==
    /\ InHandler(t, "actions_approve")
    /\ approve_action(t)

\* a decision that is neither 'approved' nor 'rejected'
actions_approve_invalid(t) ==
    /\ InHandler(t, "actions_approve")
    /\ Respond(t, "handler", 400, [NoBody EXCEPT !.message = Some(s_decision_invalid)])
    /\ HandlerOnly

actions_approve_respond(t) ==
    /\ HandlerReturned(t, "actions_approve", "approve_action")
    /\ IF frames[t].ret = None
       THEN Respond(t, "handler", 404, [NoBody EXCEPT !.message = Some(s_not_found)])
       ELSE Respond(t, "handler", 200, [NoBody EXCEPT !.request = frames[t].ret])
    /\ HandlerOnly

\* actions_execute, lines 357-362: the service call
actions_execute(t) ==
    /\ InHandler(t, "actions_execute")
    /\ execute_action(t)

\* lines 363-365: every error of execute_action is answered with 400
actions_execute_respond(t) ==
    /\ HandlerReturned(t, "actions_execute", "execute_action")
    /\ LET r == frames[t].ret[1]
       IN  IF r.error # None
           THEN Respond(t, "handler", 400, [NoBody EXCEPT !.message = r.error])
           ELSE Respond(t, "handler", 200, [NoBody EXCEPT !.request = r.req])
    /\ HandlerOnly

\* actions_list, lines 368-376: the rows as the store has them
actions_list(t) ==
    /\ InHandler(t, "actions_list")
    /\ \E incident_id \in {None, Some(1)} :
          LET rows == IF incident_id = None THEN action_requests
                      ELSE list_action_requests(action_requests, incident_id[1])
          IN  Respond(t, "handler", 200,
                      [NoBody EXCEPT !.requests =
                          Some([i \in DOMAIN rows |-> Returned(rows[i], None, None)])])
    /\ HandlerOnly

\* actions_get, lines 379-385: the row as the store has it
actions_get(t) ==
    /\ InHandler(t, "actions_get")
    /\ \E request_id \in RouteRequestIds :
          LET row == get_action_request(action_requests, request_id)
          IN  IF row = None
              THEN Respond(t, "handler", 404, [NoBody EXCEPT !.message = Some(s_not_found)])
              ELSE Respond(t, "handler", 200,
                           [NoBody EXCEPT !.request = Some(Returned(row[1], None, None))])
    /\ HandlerOnly

\* the requests there are when the first HTTP request arrives: none, one of a passive
\* type without approval, or the same with the approval of a supervisor
RouteRequests ==
    LET one == create_action_request(<< >>, 1, s_passive_spectrum_capture, s_op1)
    IN  {<< >>, one,
         update_action_request_status(add_action_approval(one, 1, s_sa, s_approved),
                                      1, "approved", None)}

\* disarmed, or armed by arm_actions(op1, 'test', 1) at time 0; incident 1 exists
InitRoute ==
    /\ action_requests \in RouteRequests
    /\ action_audit_log =
           IF action_requests = << >> THEN << >>
           ELSE IF action_requests[1].approvals = << >>
                THEN add_action_audit_log(<< >>, 1, "requested", s_op1)
                ELSE add_action_audit_log(add_action_audit_log(<< >>, 1, "requested", s_op1),
                                          1, "approval", s_sa)
    /\ policy \in {Disarmed, ArmedPolicy(s_op1, s_reason, 1, None, 0)}
    /\ now = 0
    /\ emitted = << >>
    /\ frames = [t \in RouteCallers |-> IdleFrame]
    /\ exec_log = << >>
    /\ calls = 0
    /\ last_arm = IF policy = Disarmed THEN None
                  ELSE Some(ArmCall(s_op1, s_reason, 1, None, 0))
    /\ probe = NoProbe
    /\ drone_sessions = << >>
    /\ drone_detections = << >>
    /\ drone_tracks = << >>
    /\ drone_correlations = << >>
    /\ upsert_log = << >>
    /\ subscribers = {}
    /\ client_queues = << >>
    /\ streams = << >>
    /\ received = << >>
    /\ emit_overlap = {}
    /\ drone_incidents = create_drone_incident(<< >>, s_title_plain, s_high, 0)
    /\ evidence_manifests = << >>
    /\ manifest_log = << >>
    /\ http = [t \in RouteCallers |-> IdleHttp]

NextRoute ==
    \/ Tick
    \/ \E t \in Callers : require_role(t)
    \/ \E t \in Callers : require_armed(t)
    \/ \E t \in Callers : send_response(t)
    \/ \E t \in Callers : session_start(t)
    \/ \E t \in Callers : session_start_invalid(t)
    \/ \E t \in Callers : start_session_create(t)
    \/ \E t \in Callers : start_session_read(t)
    \/ \E t \in Callers : start_session_emit(t)
    \/ \E t \in Callers : session_start_respond(t)
    \/ \E t \in Callers : actions_arm(t)
    \/ \E t \in Callers : actions_arm_invalid(t)
    \/ \E t \in Callers : arm_actions_emit(t)
    \/ \E t \in Callers : actions_arm_respond(t)
    \/ \E t \in Callers : actions_request(t)
    \/ \E t \in Callers : actions_request_invalid(t)
    \/ \E t \in Callers : request_action_audit(t)
    \/ \E t \in Callers : request_action_read(t)
    \/ \E t \in Callers : request_action_emit(t)
    \/ \E t \in Callers : actions_request_respond(t)
    \/ \E t \in Callers : actions_approve(t)
    \/ \E t \in Callers : actions_approve_invalid(t)
    \/ \E t \in Callers : approve_action_add_approval(t)
    \/ \E t \in Callers : approve_action_audit(t)
    \/ \E t \in Callers : approve_action_reread(t)
    \/ \E t \in Callers : approve_action_update(t)
    \/ \E t \in Callers : approve_action_read(t)
    \/ \E t \in Callers : approve_action_emit(t)
    \/ \E t \in Callers : actions_approve_respond(t)
    \/ \E t \in Callers : actions_execute(t)
    \/ \E t \in Callers : execute_action_policy(t)
    \/ \E t \in Callers : execute_action_update(t)
    \/ \E t \in Callers : execute_action_audit(t)
    \/ \E t \in Callers : execute_action_read(t)
    \/ \E t \in Callers : execute_action_emit(t)
    \/ \E t \in Callers : actions_execute_respond(t)
    \/ \E t \in Callers : actions_list(t)
    \/ \E t \in Callers : actions_get(t)

SpecRoute == InitRoute /\ [][NextRoute]_vars

---------------------------------------------------------------------------
(* The arming window: policy calls only, at instants around the window's end *)

InitPolicy ==
    /\ action_requests = << >>
    /\ action_audit_log = << >>
    /\ policy = Disarmed
    /\ now = 0
    /\ emitted = << >>
    /\ frames = [t \in PolicyCallers |-> IdleFrame]
    /\ exec_log = << >>
    /\ calls = 0
    /\ last_arm = None
    /\ probe = NoProbe
    /\ NoOps

\* time passes until one second before the end of the window, until its end, or
\* until one second after it
TickPolicy ==
    /\ policy.armed_until_ts # None
    /\ \E d \in {-1, 0, 1} :
           /\ policy.armed_until_ts[1] + d > now
           /\ now' = policy.armed_until_ts[1] + d
    /\ UNCHANGED <<ops_vars, last_arm, probe, action_requests, action_audit_log, policy, emitted,
                   frames, exec_log, calls>>

NextPolicy ==
    \/ TickPolicy
    \/ \E t \in Callers : get_policy_state(t)
    \/ \E t \in Callers : arm_actions(t)
    \/ \E t \in Callers : arm_actions_emit(t)
    \/ \E t \in Callers : disarm_actions(t)
    \/ \E t \in Callers : disarm_actions_emit(t)

SpecPolicy == InitPolicy /\ [][NextPolicy]_vars

---------------------------------------------------------------------------
(* required_approvals as a pure function of the action type *)

\* the action types tried: None, and a word between optional white space
Pads == {<< >>, <<" ">>, <<"\t">>, <<" ", "\n">>}
Words ==
    { << >>,
      s_passive_,
      <<"P","A","S","S","I","V","E","_">>,
      <<"P","a","s","s","i","v","e","_","S","c","a","n">>,
      s_passive_ \o <<"s","c","a","n">>,
      s_passive_ \o <<"c","a","p","t","u","r","e">>,
      s_passive_spectrum_capture,
      <<"p","a","s","s","i","v","e">>,
      <<"p","a","s","s","i","v","_">>,
      <<"p","a","s","s","i","v","e","-","s","c","a","n">>,
      <<"p","a","s","s"," ","i","v","e","_">>,
      <<"x">> \o s_passive_,
      <<"_">> \o s_passive_,
      <<"a","c","t","i","v","e","_","t","e","s","t">>,
      s_wifi_deauth_test }
TypeInputs == {None} \cup {Some(l \o w \o r) : l \in Pads, w \in Words, r \in Pads}

\* both implementations on one action type, as the policy test calls them
EvalRequiredApprovals ==
    \E a \in TypeInputs :
        /\ probe' = [fn  |-> "required_approvals",
                     arg |-> a,
                     out |-> <<required_approvals(a), required_approvals_for_action(a)>>]
        /\ UNCHANGED <<action_requests, action_audit_log, policy, now, emitted, frames,
                       exec_log, calls, last_arm, ops_vars>>

NextReq == EvalRequiredApprovals

SpecReq == Init /\ [][NextReq]_vars

---------------------------------------------------------------------------
(* Properties *)

Requests == DOMAIN action_requests
AuditOf(request_id, event_type) ==
    SelectSeq(action_audit_log,
              LAMBDA e : e.request_id = request_id /\ e.event_type = event_type)
ExecutionsOf(request_id) ==
    SelectSeq(exec_log, LAMBDA e : e.request_id = request_id)
EventsOf(request_id, event_type) ==
    SelectSeq(emitted,
              LAMBDA e : e.type = event_type /\ e.payload.request.row.id = request_id)

\* the approvals of a row whose decision is 'approved', whatever the letter case
Approving(row) ==
    {i \in DOMAIN row.approvals :
        /\ Len(row.approvals[i].decision) = Len(s_approved)
        /\ \A k \in DOMAIN s_approved :
               LowerChar(row.approvals[i].decision[k]) = s_approved[k]}

\* two names that differ at most in letter case
SameName(a, b) ==
    Len(a) = Len(b) /\ \A k \in DOMAIN a : LowerChar(a[k]) = LowerChar(b[k])

\* an action type that reads 'passive_...' after leading white space, in any letter case
IsPassiveType(s) ==
    \E k \in 0..Len(s) :
        /\ \A i \in 1..k : IsSpace(s[i])
        /\ Len(s) >= k + Len(s_passive_)
        /\ \A i \in DOMAIN s_passive_ : LowerChar(s[k + i]) = s_passive_[i]

\* the approvals a row needs: one for a passive action, two for any other
NeededApprovals(row) == IF IsPassiveType(row.action_type) THEN 1 ELSE 2

\* C1: a request whose status is executed has at least required_approvals(action_type)
\* approvals with decision approved, and every execute_action call that wrote the
\* status executed had read the policy as armed.
C1_ExecutedHadQuorumAndArmed ==
    \A id \in Requests :
        action_requests[id].status = "executed" =>
            /\ Cardinality(Approving(action_requests[id])) >= NeededApprovals(action_requests[id])
            /\ ExecutionsOf(id) # << >>
            /\ \A k \in DOMAIN ExecutionsOf(id) : ExecutionsOf(id)[k].armed

\* a two-approval request has been executed
C1_ExecutedTwoApprovals ==
    \E id \in Requests :
        /\ action_requests[id].status = "executed"
        /\ action_requests[id].action_type = s_wifi_deauth_test
        /\ Cardinality(Approving(action_requests[id])) = 2

\* the approvers, up to letter case, who approved the row
DistinctApprovers(row) ==
    {Lower(row.approvals[i].approved_by) : i \in Approving(row)}

\* C2: a request is approved or executed only if at least required_approvals(action_type)
\* distinct approvers (compared case-insensitively) approved it, under any interleaving
\* of the calls.
C2_QuorumOfDistinctApprovers ==
    \A id \in Requests :
        action_requests[id].status \in {"approved", "executed"} =>
            Cardinality(DistinctApprovers(action_requests[id]))
                >= NeededApprovals(action_requests[id])

\* C3: a request's approvals list holds at most one approval per approver, the names
\* compared case-insensitively, under any interleaving of approve_action calls.
C3_OneApprovalPerApprover ==
    \A id \in Requests :
        \A i, j \in DOMAIN action_requests[id].approvals :
            SameName(action_requests[id].approvals[i].approved_by,
                     action_requests[id].approvals[j].approved_by) => i = j

\* C4: execute_action on a request whose status is already executed fails with an error
\* and changes nothing: a call that read the request as executed ends at its checks with
\* an error result, and the requests, the audit log and the events stay as they were.
C4_ExecuteOfExecutedFails ==
    [][\A t \in Callers :
          ( /\ frames[t].op = "execute_action"
            /\ frames[t].pc \in {"policy", "update"}
            /\ frames[t].req[1].status = "executed"
            /\ frames'[t] # frames[t] )
          => /\ frames'[t].pc = "done"
             /\ frames'[t].ret[1].error # None
             /\ UNCHANGED <<action_requests, action_audit_log, emitted>>]_vars

\* C5: once the status of a request is rejected it stays rejected, whatever
\* approve_action and execute_action calls follow.
C5_RejectedStaysRejected ==
    [][\A id \in Requests :
          action_requests[id].status = "rejected"
              => action_requests'[id].status = "rejected"]_vars

\* the status changes the workflow allows
AllowedTransitions ==
    {<<"pending", "approved">>, <<"approved", "executed">>, <<"pending", "rejected">>}

\* C6: the status of a request changes only along pending -> approved,
\* approved -> executed and pending -> rejected.
C6_OnlyAllowedTransitions ==
    [][\A id \in Requests :
          action_requests'[id].status # action_requests[id].status
              => <<action_requests[id].status, action_requests'[id].status>>
                     \in AllowedTransitions]_vars

\* the calls of one kind that have changed the request and not yet written their audit entry
AuditPending(id, op) ==
    Cardinality({t \in Callers : /\ frames[t].op = op
                                 /\ frames[t].pc = "audit"
                                 /\ frames[t].request_id = id})

\* request, approve by a, approve by b, execute: all four have returned
TwoApprovalScenario(id) ==
    /\ ~IsPassiveType(action_requests[id].action_type)
    /\ Len(action_requests[id].approvals) = 2
    /\ Len(ExecutionsOf(id)) = 1
    /\ \A t \in Callers : frames[t].pc = "done"

\* C7: every state-changing operation appends exactly one audit entry for its request
\* (request_action 'requested', each recorded approval 'approval', each successful
\* execute_action 'executed'), and after request, approve by a, approve by b, execute
\* the request's audit log is [requested, approval, approval, executed].
C7_OneAuditEntryPerOperation ==
    \A id \in Requests :
        /\ Len(AuditOf(id, "requested")) + AuditPending(id, "request_action") = 1
        /\ Len(AuditOf(id, "approval")) + AuditPending(id, "approve_action")
               = Len(action_requests[id].approvals)
        /\ Len(AuditOf(id, "executed")) + AuditPending(id, "execute_action")
               = Len(ExecutionsOf(id))
        /\ TwoApprovalScenario(id) =>
               list_action_audit_logs(action_audit_log, id) =
                   << [request_id |-> id, event_type |-> "requested",
                       actor |-> action_requests[id].requested_by],
                      [request_id |-> id, event_type |-> "approval",
                       actor |-> action_requests[id].approvals[1].approved_by],
                      [request_id |-> id, event_type |-> "approval",
                       actor |-> action_requests[id].approvals[2].approved_by],
                      [request_id |-> id, event_type |-> "executed",
                       actor |-> ExecutionsOf(id)[1].actor] >>

\* the two-approval scenario has run to its end
C7_ScenarioDone ==
    \E id \in Requests :
        TwoApprovalScenario(id) /\ action_requests[id].status = "executed"

\* caller t starts a call of op in this step
Starts(t, op) ==
    /\ frames[t].pc = "done"
    /\ calls' = calls + 1
    /\ frames'[t].op = op
    /\ \A u \in Callers \ {t} : frames'[u] = frames[u]

\* the approver has an approval on the request, the names compared without letter case
HasDecided(id, approver) ==
    \E i \in DOMAIN action_requests[id].approvals :
        SameName(action_requests[id].approvals[i].approved_by, approver)

\* C8: approve_action by an approver who has already decided on the request (same name
\* up to letter case, whatever the new decision) is a no-op: it returns at once with the
\* current request, and approvals, status, audit log and events are unchanged.
C8_RepeatedApproverIsNoOp ==
    [][\A t \in Callers :
          ( /\ Starts(t, "approve_action")
            /\ frames'[t].request_id \in Requests
            /\ HasDecided(frames'[t].request_id, frames'[t].who) )
          => /\ frames'[t].pc = "done"
             /\ UNCHANGED <<action_requests, action_audit_log, emitted>>
             /\ frames'[t].ret # None
             /\ frames'[t].ret[1].row = action_requests[frames'[t].request_id]]_vars

\* 'SA' came back with a rejection after 'sa' had decided, and got the request back
C8_RepeatedApproverReturned ==
    \E t \in Callers :
        /\ frames[t].op = "approve_action" /\ frames[t].pc = "done"
        /\ frames[t].who = s_SA /\ frames[t].decision = s_rejected
        /\ frames[t].request_id \in Requests
        /\ \E i \in DOMAIN action_requests[frames[t].request_id].approvals :
               action_requests[frames[t].request_id].approvals[i].approved_by = s_sa
        /\ frames[t].ret # None
        /\ frames[t].ret[1].row = action_requests[frames[t].request_id]

DigitText == <<"0", "1", "2", "3", "4", "5", "6", "7", "8", "9">>

\* (null, message)
ErrorResult(message) == Some([req |-> None, error |-> Some(message)])

\* C9: execute_action returns (null, 'Action request not found') for a missing request,
\* else (null, 'Action plane is not armed') when the policy is not armed, else
\* (null, 'Insufficient approvals (k/n)') when k approved decisions < n required; in
\* these cases no step of the call changes the requests, the audit log or the events.
C9_ExecuteErrors ==
    [][\A t \in Callers :
          /\ Starts(t, "execute_action") =>
                /\ UNCHANGED <<action_requests, action_audit_log, emitted>>
                /\ frames'[t].request_id \notin Requests =>
                       /\ frames'[t].pc = "done"
                       /\ frames'[t].ret = ErrorResult(<<"Action request not found">>)
          /\ ( /\ frames[t].op = "execute_action"
               /\ frames[t].pc = "policy"
               /\ frames'[t] # frames[t] ) =>
                LET k == Cardinality(Approving(frames[t].req[1]))
                    n == NeededApprovals(frames[t].req[1])
                    armed == /\ policy.armed_until_ts # None
                             /\ now < policy.armed_until_ts[1]
                IN  /\ ~armed =>
                        /\ frames'[t].pc = "done"
                        /\ frames'[t].ret = ErrorResult(<<"Action plane is not armed">>)
                        /\ UNCHANGED <<action_requests, action_audit_log, emitted>>
                    /\ (armed /\ k < n) =>
                        /\ frames'[t].pc = "done"
                        /\ frames'[t].ret = ErrorResult(
                               <<"Insufficient approvals (", DigitText[k + 1], "/",
                                 DigitText[n + 1], ")">>)
                        /\ UNCHANGED <<action_requests, action_audit_log, emitted>>]_vars

\* an armed execute_action came back with 'Insufficient approvals (1/2)'
C9_InsufficientOneOfTwo ==
    \E t \in Callers :
        /\ frames[t].op = "execute_action" /\ frames[t].pc = "done"
        /\ frames[t].ret = ErrorResult(<<"Insufficient approvals (", "1", "/", "2", ")">>)

\* C10: required_approvals(action_type) is 1 exactly when action_type, trimmed and
\* lower-cased, starts with 'passive_', and 2 otherwise (empty and null included); the
\* service method and the policy helper return the same value.
C10_RequiredApprovals ==
    probe.fn = "required_approvals" =>
        LET s    == IF probe.arg = None THEN << >> ELSE probe.arg[1]
            want == IF IsPassiveType(s) THEN 1 ELSE 2
        IN  probe.out = <<want, want>>

\* ' Passive_Scan' between white space needs one approval
C10_PaddedMixedCasePassive ==
    /\ probe.fn = "required_approvals"
    /\ probe.arg = Some(<<" ", "\n", "P","a","s","s","i","v","e","_","S","c","a","n", "\t">>)
    /\ probe.out = <<1, 1>>

---------------------------------------------------------------------------
(* The arming window *)

\* the window length for a requested duration: 900 when it is missing, null or 0,
\* and never less than 60 nor more than 7200
EffectiveDuration(d) ==
    LET x == IF d = None THEN 900 ELSE IF d[1] = 0 THEN 900 ELSE d[1]
    IN  IF x < 60 THEN 60 ELSE IF x > 7200 THEN 7200 ELSE x

\* the end of the window opened by a remembered arm_actions call
WindowEnd(a) == a.at + EffectiveDuration(a.duration_seconds)

\* a snapshot with the four arming fields null
AllNull(snap) ==
    /\ snap.armed_by = None /\ snap.arm_reason = None
    /\ snap.arm_incident_id = None /\ snap.armed_until = None

\* the four fields of the service, all null
Cleared ==
    [armed_until_ts |-> None, armed_by |-> None, arm_reason |-> None,
     arm_incident_id |-> None]

\* the snapshot caller t has just been given under the policy lock
SnapshotOf(f) == IF f.op = "get_policy_state" THEN f.ret[1] ELSE f.state[1]

\* C11: after arm_actions at time t with effective duration d, and no disarm or re-arm
\* since, get_policy_state reports armed at every time before t+d and not armed at every
\* time from t+d on; the read that finds the window over clears the four fields, and
\* the passing of time alone changes no field.
C11_ArmedUntilWindowEnd ==
    [][/\ now' # now => policy' = policy
       /\ \A t \in Callers :
            (Starts(t, "get_policy_state") /\ last_arm # None) =>
                /\ frames'[t].pc = "done"
                /\ now < WindowEnd(last_arm[1]) =>
                       /\ frames'[t].ret[1].armed = TRUE
                       /\ policy' = policy
                /\ now >= WindowEnd(last_arm[1]) =>
                       /\ frames'[t].ret[1].armed = FALSE
                       /\ AllNull(frames'[t].ret[1])
                       /\ policy' = Cleared]_vars

\* get_policy_state, called at the very end of the window, found it over
C11_ReadAtWindowEnd ==
    \E t \in Callers :
        /\ frames[t].op = "get_policy_state" /\ frames[t].pc = "done"
        /\ last_arm # None
        /\ now = WindowEnd(last_arm[1])
        /\ frames[t].ret[1].armed = FALSE
        /\ policy = Cleared

\* C12: every snapshot given by get_policy_state, arm_actions or disarm_actions has
\* armed <=> (armed_until # null /\ armed_until > now); when armed is false the four
\* fields are null, when it is true they are those of the most recent arm_actions call;
\* arm_actions and disarm_actions return the snapshot taken under the lock.
C12_SnapshotConsistent ==
    [][\A t \in Callers :
          /\ \A op \in {"get_policy_state", "arm_actions", "disarm_actions"} :
                Starts(t, op) =>
                    LET snap == SnapshotOf(frames'[t])
                    IN  /\ snap.armed <=> ( /\ snap.armed_until # None
                                            /\ snap.armed_until[1] > now )
                        /\ ~snap.armed => AllNull(snap)
                        /\ snap.armed =>
                              /\ last_arm' # None
                              /\ snap.armed_by = Some(last_arm'[1].actor)
                              /\ snap.arm_reason = Some(last_arm'[1].reason)
                              /\ snap.arm_incident_id = Some(last_arm'[1].incident_id)
                              /\ snap.armed_until = Some(WindowEnd(last_arm'[1]))
          /\ ( /\ frames[t].op \in {"arm_actions", "disarm_actions"}
               /\ frames[t].pc = "emit"
               /\ frames'[t] # frames[t] ) =>
                   /\ frames'[t].pc = "done"
                   /\ frames'[t].ret = frames[t].state]_vars

\* after op1 and then op2 armed, get_policy_state names op2
C12_ReadAfterRearm ==
    \E t \in Callers :
        /\ frames[t].op = "get_policy_state" /\ frames[t].pc = "done"
        /\ frames[t].ret[1].armed = TRUE
        /\ frames[t].ret[1].armed_by = Some(s_op2)
        /\ \E i \in DOMAIN emitted :
               /\ emitted[i].type = "policy_armed"
               /\ emitted[i].payload.actor = s_op1

\* C13: arm_actions sets armed_until = now + clamp(duration_seconds, 60, 7200), with 900
\* for a missing, null or 0 duration: the window is 60 to 7200 seconds long (60 for a
\* requested 5, 7200 for a requested 100000) and the snapshot returned is armed.
C13_ArmWindowClamped ==
    [][\A t \in Callers :
          Starts(t, "arm_actions") =>
              LET d   == last_arm'[1].duration_seconds
                  len == policy'.armed_until_ts[1] - now
              IN  /\ policy'.armed_until_ts # None
                  /\ last_arm'[1].at = now
                  /\ len = EffectiveDuration(d)
                  /\ len >= 60 /\ len <= 7200
                  /\ d \in {None, Some(0)} => len = 900
                  /\ d = Some(5) => len = 60
                  /\ d = Some(100000) => len = 7200
                  /\ frames'[t].state[1].armed = TRUE
                  /\ frames'[t].state[1].armed_until = policy'.armed_until_ts]_vars

\* arm_actions, asked for 5 seconds at a time after 0, returned an armed state
C13_FiveSecondsArmsSixty ==
    \E t \in Callers :
        /\ frames[t].op = "arm_actions" /\ frames[t].pc = "done"
        /\ last_arm # None
        /\ last_arm[1].duration_seconds = Some(5)
        /\ last_arm[1].at > 0
        /\ policy.armed_until_ts = Some(last_arm[1].at + 60)
        /\ frames[t].ret[1].armed = TRUE

\* C14: disarm_actions, in any policy state, clears the four fields, gives a snapshot
\* with armed = false and the fields null, and emits exactly one policy_disarmed event;
\* get_policy_state then reports armed = false until the next arm_actions.
C14_DisarmClears ==
    [][\A t \in Callers :
          /\ Starts(t, "disarm_actions") =>
                /\ policy' = Cleared
                /\ frames'[t].pc = "emit"
                /\ frames'[t].state[1].armed = FALSE
                /\ AllNull(frames'[t].state[1])
                /\ emitted' = emitted
          /\ ( /\ frames[t].op = "disarm_actions"
               /\ frames[t].pc = "emit"
               /\ frames'[t] # frames[t] ) =>
                /\ frames'[t].pc = "done"
                /\ frames'[t].ret = frames[t].state
                /\ Len(emitted') = Len(emitted) + 1
                /\ SubSeq(emitted', 1, Len(emitted)) = emitted
                /\ emitted'[Len(emitted')].type = "policy_disarmed"
                /\ emitted'[Len(emitted')].payload.state = frames[t].state[1]
                /\ policy' = policy
          /\ (Starts(t, "get_policy_state") /\ last_arm = None) =>
                /\ frames'[t].ret[1].armed = FALSE
                /\ AllNull(frames'[t].ret[1])]_vars

\* disarm_actions ran when the window of the last arm_actions was over but not yet
\* cleared by a read
C14_DisarmedAfterExpiry ==
    \E t \in Callers :
        /\ frames[t].op = "disarm_actions" /\ frames[t].pc = "done"
        /\ calls = 2
        /\ Len(emitted) = 2
        /\ emitted[1].type = "policy_armed"
        /\ emitted[1].payload.state.armed_until[1] <= now
        /\ emitted[2].type = "policy_disarmed"
        /\ policy = Cleared

---------------------------------------------------------------------------
(* Sessions *)

\* the sessions with stopped_at null
ActiveSessions == {i \in DOMAIN drone_sessions : drone_sessions[i].stopped_at = None}

SessionStartedCount ==
    Cardinality({i \in DOMAIN emitted : emitted[i].type = "session_started"})

\* caller t, in a call of op at position pc, takes its next step
Steps(t, op, pc) ==
    /\ frames[t].op = op /\ frames[t].pc = pc
    /\ frames'[t] # frames[t]

\* C16: start_session called while a session is active returns that session as it is,
\* creates no session and emits no event; a call made with no active session creates
\* one session from its arguments (mode 'passive' when none is given) and emits one
\* session_started carrying it; nothing else creates a session.
C16_StartSessionIdempotent ==
    [][/\ \A t \in Callers :
            /\ (Starts(t, "start_session") /\ ActiveSessions # {}) =>
                  /\ frames'[t].pc = "done"
                  /\ \E i \in ActiveSessions : frames'[t].ret = Some(drone_sessions[i])
                  /\ UNCHANGED <<drone_sessions, emitted>>
            /\ (Starts(t, "start_session") /\ ActiveSessions = {}) =>
                  /\ frames'[t].pc = "create"
                  /\ UNCHANGED <<drone_sessions, emitted>>
            /\ Steps(t, "start_session", "create") =>
                  /\ drone_sessions' = Append(drone_sessions,
                         [id |-> Len(drone_sessions) + 1,
                          mode |-> IF frames[t].args[1].mode = << >>
                                   THEN <<"p","a","s","s","i","v","e">>
                                   ELSE frames[t].args[1].mode,
                          label |-> frames[t].args[1].label,
                          operator |-> frames[t].who,
                          metadata |-> frames[t].args[1].metadata,
                          stopped_at |-> None, summary |-> None])
                  /\ emitted' = emitted
            /\ Steps(t, "start_session", "read") => UNCHANGED <<drone_sessions, emitted>>
            /\ Steps(t, "start_session", "emit") =>
                  /\ frames'[t].pc = "done"
                  /\ frames'[t].ret = Some(drone_sessions[Len(drone_sessions)])
                  /\ emitted' = Append(emitted,
                         [type |-> "session_started",
                          payload |-> [session |-> drone_sessions[Len(drone_sessions)]]])
                  /\ drone_sessions' = drone_sessions
       /\ Len(drone_sessions') # Len(drone_sessions) =>
            \E t \in Callers : Steps(t, "start_session", "create")
       /\ (\A t \in Callers : frames'[t].pc = "done") =>
            SessionStartedCount' = Len(drone_sessions')]_vars

\* op2 asked for an active-mode session while op1's passive session was active, and
\* got op1's session
C16_StartedWhileActive ==
    \E t \in Callers :
        /\ frames[t].op = "start_session" /\ frames[t].pc = "done"
        /\ frames[t].who = s_op2
        /\ frames[t].args[1].mode = s_active
        /\ Len(drone_sessions) = 1
        /\ frames[t].ret = Some(drone_sessions[1])
        /\ drone_sessions[1].operator = s_op1
        /\ drone_sessions[1].mode = s_passive

\* C17: stop_session without a session_id while no session is active returns null,
\* changes no table and emits nothing; with a session_id it stops that session and no
\* other; without one it stops the active session, after which no session is active.
C17_StopSessionTarget ==
    [][\A t \in Callers :
          /\ ( /\ Starts(t, "stop_session")
               /\ frames'[t].args[1].session_id = None
               /\ ActiveSessions = {} ) =>
                /\ frames'[t].pc = "done"
                /\ frames'[t].ret = None
                /\ UNCHANGED <<manifest_vars, route_vars, drone_sessions, ingest_vars, emitted>>
          /\ Starts(t, "stop_session") => UNCHANGED <<drone_sessions, emitted>>
          /\ ( /\ frames[t].op = "stop_session"
               /\ frames[t].args # None
               /\ frames[t].args[1].session_id # None
               /\ frames'[t] # frames[t] ) =>
                \A i \in DOMAIN drone_sessions :
                    IF i = frames[t].args[1].session_id[1]
                    THEN frames[t].pc = "stop" => drone_sessions'[i].stopped_at # None
                    ELSE drone_sessions'[i] = drone_sessions[i]
          /\ ( /\ Steps(t, "stop_session", "stop")
               /\ frames[t].args[1].session_id = None ) =>
                /\ \A i \in ActiveSessions : drone_sessions'[i].stopped_at # None
                /\ \A i \in DOMAIN drone_sessions : drone_sessions'[i].stopped_at # None]_vars

---------------------------------------------------------------------------
(* Ingestion *)

\* the 'detection' events, in the order of their emission
DetectionEvents == SelectSeq(emitted, LAMBDA e : e.type = "detection")

\* caller t's call of op ends in this step
Ends(t, op) ==
    /\ frames'[t].op = op /\ frames'[t].pc = "done"
    /\ frames[t].pc # "done" \/ Starts(t, op)

\* C18: the 'detection' events of an ingest_event call are, one for one, the detection
\* rows it upserted, also when the track or correlation append for a detection fails;
\* when the detector gives an empty list nothing is persisted and nothing is emitted.
C18_EventsMatchUpserts ==
    [][\A t \in Callers :
          /\ Ends(t, "ingest_event") =>
                /\ Len(DetectionEvents') = Len(upsert_log')
                /\ \A i \in DOMAIN upsert_log' :
                       DetectionEvents'[i].payload.detection.id = upsert_log'[i]
          /\ (Starts(t, "ingest_event") /\ frames'[t].pc = "done") =>
                UNCHANGED <<drone_detections, drone_tracks, drone_correlations, emitted>>
      ]_vars

\* C19: ingest_event never ends by an exception reaching its caller, whichever of the
\* detector, the active-session lookup, the upsert, the track append or the correlation
\* append fails; and after a failure for one detection the call goes on with the
\* remaining detections of the event.
C19_IngestNeverRaises ==
    [][\A t \in Callers :
          /\ Ends(t, "ingest_event") => frames'[t].ret = None
          /\ ( /\ frames[t].op = "ingest_event"
               /\ frames[t].pc \in {"upsert", "get", "track", "correlate", "emit"}
               /\ frames[t].loc[1].rest # << >>
               /\ frames'[t] # frames[t] ) =>
                \/ /\ frames'[t].pc = "upsert"
                   /\ frames'[t].loc[1].detection = Head(frames[t].loc[1].rest)
                   /\ frames'[t].loc[1].rest = Tail(frames[t].loc[1].rest)
                \/ /\ frames'[t].pc \notin {"upsert", "done"}
                   /\ frames'[t].loc[1].detection = frames[t].loc[1].detection
                   /\ frames'[t].loc[1].rest = frames[t].loc[1].rest]_vars

---------------------------------------------------------------------------
(* Streaming *)

\* the queue caller t's _emit is delivering to
CurrentQueue(t) == Head(frames[t].loc[1].todo)

\* C20: a subscriber queue never holds more than 500 events; an emit to a full queue
\* drops the oldest event and appends the new one at the tail, and gives the new event
\* up only if the queue is still full after the drop; left alone with the queue, the
\* emit leaves the 499 most recent earlier events followed by the new one.
C20_QueueBoundedDropOldest ==
    [][/\ \A q \in DOMAIN client_queues' : Len(client_queues'[q]) <= 500
       /\ \A t \in Callers :
            /\ (Steps(t, "_emit", "put") /\ Len(client_queues[CurrentQueue(t)]) < 500) =>
                  client_queues'[CurrentQueue(t)] =
                      Append(client_queues[CurrentQueue(t)], frames[t].args[1].envelope)
            /\ (Steps(t, "_emit", "put") /\ Len(client_queues[CurrentQueue(t)]) = 500) =>
                  /\ frames'[t].pc = "drop"
                  /\ client_queues' = client_queues
            /\ (Steps(t, "_emit", "drop") /\ Len(client_queues[CurrentQueue(t)]) = 500) =>
                  /\ frames'[t].pc = "retry"
                  /\ client_queues'[CurrentQueue(t)] =
                         Append(SubSeq(client_queues[CurrentQueue(t)], 2, 500),
                                frames[t].args[1].envelope)
                     \/ client_queues'[CurrentQueue(t)] =
                            SubSeq(client_queues[CurrentQueue(t)], 2, 500)
            /\ (Steps(t, "_emit", "retry") /\ Len(client_queues[CurrentQueue(t)]) < 500) =>
                  client_queues'[CurrentQueue(t)] =
                      Append(client_queues[CurrentQueue(t)], frames[t].args[1].envelope)
            /\ ( /\ frames[t].op = "_emit"
                 /\ frames[t].pc \in {"drop", "retry"}
                 /\ frames'[t] # frames[t]
                 /\ frames'[t].pc \in {"put", "done"}
                 /\ client_queues'[CurrentQueue(t)] = client_queues[CurrentQueue(t)] ) =>
                  Len(client_queues[CurrentQueue(t)]) = 500]_vars

\* caller t is inside _emit
InEmit(t) == frames[t].op = "_emit" /\ frames[t].pc # "done"

\* the subscribers caller t's _emit has still to serve, the current one included
Pending(t) ==
    IF InEmit(t)
    THEN {frames[t].loc[1].todo[i] : i \in DOMAIN frames[t].loc[1].todo}
    ELSE {}

\* the statements caller t's _emit has at most left to run
EmitWork(t) ==
    IF InEmit(t)
    THEN 3 * Len(frames[t].loc[1].todo)
            - (CASE frames[t].pc = "put" -> 0
                 [] frames[t].pc = "drop" -> 1
                 [] frames[t].pc = "retry" -> 2)
    ELSE 0

\* C21: _emit never waits, never raises and always returns, whatever the subscribers
\* and their consumers do: inside _emit the emitter's next statement can always run,
\* each statement brings the return nearer and touches only the queue of the subscriber
\* being served, a subscriber with room in its queue gets the event at the first put
\* whatever the state of the others, and the call returns None, which it does only
\* after every subscriber of the snapshot was served.
C21_EmitNeverBlocks ==
    /\ [](\A t \in BusCallers :
            /\ InEmit(t) => ENABLED (emit_put(t) \/ emit_drop(t) \/ emit_retry(t))
            /\ (frames[t].op = "_emit" /\ frames[t].pc = "done") => frames[t].ret = None)
    /\ [][\A t \in BusCallers :
            (InEmit(t) /\ frames'[t] # frames[t]) =>
                /\ EmitWork(t)' < EmitWork(t)
                /\ \A q \in DOMAIN client_queues :
                      q # CurrentQueue(t) => client_queues'[q] = client_queues[q]
                /\ Pending(t) \ Pending(t)' \in {{}, {CurrentQueue(t)}}
                /\ (frames[t].pc = "put" /\ Len(client_queues[CurrentQueue(t)]) < 500) =>
                      /\ CurrentQueue(t) \notin Pending(t)'
                      /\ client_queues'[CurrentQueue(t)] =
                             Append(client_queues[CurrentQueue(t)],
                                    frames[t].args[1].envelope)]_vars
    /\ \A t \in BusCallers : []<>(~InEmit(t))

\* an emit returned after it delivered its event to the second stream while the queue
\* of the first was full and its consumer had taken nothing
C21_DeliveredPastFullQueue ==
    \E t \in BusCallers :
        /\ frames[t].op = "_emit" /\ frames[t].pc = "done"
        /\ subscribers = {1, 2}
        /\ Len(client_queues[1]) = 500
        /\ received[1] = << >>
        /\ \E i \in DOMAIN client_queues[2] :
              client_queues[2][i] = frames[t].args[1].envelope

\* the number of the i-th event stream s yielded
ReceivedNo(s, i) == received[s][i].payload.n

\* the _emit of event a returned before the _emit of event b started
HappensBefore(a, b) == a < b /\ <<a, b>> \notin emit_overlap

\* C22: the events a stream yields are events handed to _emit, none of them twice, in
\* an order that agrees with the order of the emit invocations: an event whose _emit
\* returned before the _emit of another started, as for two events emitted one after
\* the other by one call, is never yielded after that other. Events may be missing.
C22_ReceivedInEmitOrder ==
    \A s \in Followed :
        /\ \A i \in DOMAIN received[s] :
              /\ received[s][i].type = "event"
              /\ ReceivedNo(s, i) \in DOMAIN emitted
              /\ received[s][i] = emitted[ReceivedNo(s, i)]
        /\ \A i, j \in DOMAIN received[s] :
              i < j => /\ ReceivedNo(s, i) # ReceivedNo(s, j)
                       /\ ~HappensBefore(ReceivedNo(s, j), ReceivedNo(s, i))

\* a stream yielded, in their order, the events of the two emits of the behaviour, of
\* which the first had returned before the second started
C22_TwoEmitsReceivedInOrder ==
    \E s \in Followed :
        /\ Len(received[s]) = 2
        /\ ReceivedNo(s, 2) = Len(emitted)
        /\ ReceivedNo(s, 1) = Len(emitted) - 1
        /\ HappensBefore(ReceivedNo(s, 1), ReceivedNo(s, 2))
        /\ calls = 2

\* the streams that were started and have not ended
LiveStreams == {s \in DOMAIN streams : streams[s].pc # "ended"}

\* C23: the queue of a stream is in the subscriber set from the step that starts the
\* stream to the step that ends it, and at no other time: the set holds exactly the
\* queues of the streams started and not ended, a start adds the queue of the new
\* stream and nothing else, and an end, whether by close() or by an exception raised at
\* the yield, removes the queue of that stream and nothing else.
C23_SubscribersAreLiveStreams ==
    /\ [](subscribers = LiveStreams)
    /\ [][/\ Len(streams') > Len(streams) =>
                subscribers' = subscribers \cup {Len(streams) + 1}
          /\ \A s \in DOMAIN streams :
                (streams[s].pc # "ended" /\ streams'[s].pc = "ended") =>
                    /\ s \in subscribers
                    /\ subscribers' = subscribers \ {s}
          /\ subscribers' # subscribers =>
                \/ Len(streams') > Len(streams)
                \/ \E s \in DOMAIN streams :
                      streams[s].pc # "ended" /\ streams'[s].pc = "ended"]_vars

\* a stream ended with events left in its queue and is no longer registered, while a
\* stream started after it still is
C23_EndedStreamRemoved ==
    \E s, u \in DOMAIN streams :
        /\ s < u
        /\ streams[s].pc = "ended" /\ s \notin subscribers
        /\ client_queues[s] # << >>
        /\ streams[u].pc # "ended" /\ u \in subscribers


\* d without its key
JWithout(d, key) == JDict(SelectSeq(d.pairs, LAMBDA q : q[1] # key))

\* the value with the keys of every dict in it in ascending order
RECURSIVE DeepSorted(_)
DeepSorted(obj) ==
    CASE obj.k = "list" -> JList([i \in DOMAIN obj.items |-> DeepSorted(obj.items[i])])
      [] obj.k = "dict" ->
             LET sorted == SortedPairs(obj.pairs)
             IN  JDict([i \in DOMAIN sorted |->
                           <<sorted[i][1], DeepSorted(sorted[i][2])>>])
      [] OTHER -> obj

\* the canonical serialization of a body: keys sorted at every level, separators
\* ',' and ':'
CanonicalOf(body) == json_dumps(DeepSorted(body), FALSE)

IsHex64(s) == Len(s) = 64 /\ \A i \in DOMAIN s : \E j \in DOMAIN HexDigits : s[i] = HexDigits[j]

\* the integrity field of a manifest is the digest of its body
IntegrityHolds(manifest) ==
    LET integrity == JGet(manifest, k_integrity)
    IN  /\ integrity # None
        /\ JGet(integrity[1], k_algorithm) = Some(JStr(s_sha256))
        /\ LET digest == JGet(integrity[1], k_digest)
           IN  /\ digest # None
               /\ digest[1].k = "str"
               /\ IsHex64(digest[1].str)
               /\ digest[1].str =
                      sha256_hexdigest(Utf8(CanonicalOf(JWithout(manifest, k_integrity))))

\* the manifests that calls of generate_evidence_manifest have returned
ReturnedManifests ==
    {frames[t].ret[1].manifest :
        t \in {u \in Callers : /\ frames[u].op = "generate_evidence_manifest"
                               /\ frames[u].pc = "done"
                               /\ frames[u].ret # None}}

\* C24: every manifest that generate_evidence_manifest persists or returns carries
\* integrity.algorithm = 'sha256' and an integrity.digest of 64 hexadecimal
\* characters, equal to SHA-256 over the UTF-8 bytes of the canonical serialization
\* (keys sorted at every level, separators ',' and ':') of the manifest without its
\* integrity field
C24_DigestOfCanonicalBody ==
    \A manifest \in {evidence_manifests[i].manifest : i \in DOMAIN evidence_manifests}
                        \cup ReturnedManifests :
        IntegrityHolds(manifest)

\* C24 witness: a manifest was returned for an incident with a quoted title, one
\* artifact, one request and its audit entry, built from dicts in reversed key order
C24_ManifestReturned ==
    \E manifest \in ReturnedManifests :
        /\ JGet(manifest, k_artifact_count) = Some(JInt(1))
        /\ JGet(manifest, k_audit_event_count) = Some(JInt(1))
        /\ JGet(JGet(manifest, k_incident)[1], k_title) = Some(JStr(s_title_quoted))
        /\ manifest_log[Len(manifest_log)].reversed

\* two entries of the log made against the same rows at the same clock value
SameStoreState(a, b) ==
    /\ a.incident_id = b.incident_id
    /\ a.incidents = b.incidents
    /\ a.requests = b.requests
    /\ a.audit = b.audit
    /\ a.generated_at = b.generated_at

\* C25: two calls of generate_evidence_manifest made against identical incident,
\* artifact, request and audit rows at the same clock value produce the same
\* canonical string and the same digest, whatever the insertion order of the keys,
\* the caller and the signature
C25_DeterministicInStoreState ==
    \A i, j \in DOMAIN manifest_log :
        SameStoreState(manifest_log[i], manifest_log[j])
            => /\ manifest_log[i].canonical = manifest_log[j].canonical
               /\ manifest_log[i].digest = manifest_log[j].digest

\* C25 witness: two manifests of the same rows and clock, built by different callers
\* with different signatures from dicts in different key orders, have one digest
C25_SameDigestTwice ==
    /\ Len(manifest_log) = 2
    /\ SameStoreState(manifest_log[1], manifest_log[2])
    /\ manifest_log[1].created_by # manifest_log[2].created_by
    /\ manifest_log[1].signature # manifest_log[2].signature
    /\ manifest_log[1].reversed # manifest_log[2].reversed
    /\ manifest_log[1].requests # << >>
    /\ manifest_log[1].digest = manifest_log[2].digest


---------------------------------------------------------------------------
(* The routes *)

\* the responses that have been returned and not yet sent
Responses == {http[t].response[1] : t \in {u \in DOMAIN http : http[u].response # None}}

\* the failure message of a response, or None
MessageOf(r) == r.body.message

IsInsufficientMsg(m) == \E a, n \in 0..3 : m = InsufficientMsg(a, n)

\* C26: every response of POST /drone-ops/actions/execute/{id} that fails because
\* the action plane is not armed has status 403, whether require_armed or
\* execute_action's own policy check saw the disarmed state; a failure for
\* insufficient approvals has status 400.
C26_NotArmedIs403 ==
    \A r \in Responses :
        (r.route = "actions_execute" /\ MessageOf(r) # None) =>
            /\ MessageOf(r)[1] = s_not_armed => r.status = 403
            /\ IsInsufficientMsg(MessageOf(r)[1]) => r.status = 400

\* C27: POST /drone-ops/actions/execute/{id} for a request id that does not exist,
\* called by an operator while the policy is armed, is answered with status 404.
C27_MissingRequestIs404 ==
    \A r \in Responses :
        ( /\ r.route = "actions_execute"
          /\ r.by = "handler"
          /\ MessageOf(r) = Some(s_not_found) ) => r.status = 404

\* the rank of a role name in viewer < analyst < operator < supervisor < admin
RoleRank(name) ==
    CASE name = s_viewer     -> 1
      [] name = s_analyst    -> 2
      [] name = s_operator   -> 3
      [] name = s_supervisor -> 4
      [] name = s_admin      -> 5
      [] OTHER               -> 1

\* the rank of the role of a session: a missing or unknown role counts as viewer; the
\* role is read without the spaces around it and without regard to case
SessionRank(session_role) ==
    IF session_role = None THEN 1 ELSE RoleRank(Lower(Strip(session_role[1])))

\* the rank each endpoint asks for
RouteRank(route) ==
    IF route = "actions_approve" THEN 4
    ELSE IF route \in {"actions_list", "actions_get"} THEN 1
    ELSE 3

\* the state that the handlers and the service can change
handler_vars ==
    <<action_requests, action_audit_log, policy, emitted, frames, exec_log, calls, last_arm,
      drone_sessions, ingest_vars, stream_vars, manifest_vars>>

\* C28: a role-gated endpoint runs its handler if and only if the rank of the session
\* role is at least the rank the endpoint asks for; otherwise the response is 403 with
\* required_role and current_role and nothing else changes. No role below operator
\* starts a session, arms, requests or executes; no role below supervisor approves.
C28_RoleGate ==
    /\ [](\A r \in Responses :
             IF r.by = "require_role"
             THEN /\ SessionRank(r.session_role) < RouteRank(r.route)
                  /\ r.status = 403
                  /\ r.body.required_role = Some(RequiredRole(r.route))
                  /\ r.body.current_role # None
                  /\ RoleRank(r.body.current_role[1]) = SessionRank(r.session_role)
             ELSE SessionRank(r.session_role) >= RouteRank(r.route))
    /\ [](\A t \in DOMAIN http :
             http[t].stage \in {"require_armed", "handler"} =>
                 SessionRank(http[t].session_role) >= RouteRank(http[t].route))
    /\ [][\A t \in DOMAIN http :
             /\ (http[t].stage = "idle" /\ http'[t].stage = "responded")
                    => UNCHANGED <<handler_vars, now>>
             /\ handler_vars' # handler_vars
                    => http[t].stage \in {"require_armed", "handler"}]_vars

\* C28 witness: after a request made through the endpoint, an operator is refused the
\* approval with 403, required_role supervisor and current_role operator
C28_OperatorRefusedApproval ==
    \E r \in Responses :
        /\ r.route = "actions_approve"
        /\ r.by = "require_role"
        /\ r.session_role = Some(s_operator)
        /\ r.status = 403
        /\ r.body.required_role = Some(s_supervisor)
        /\ r.body.current_role = Some(s_operator)
        /\ calls = 1
        /\ \E t \in Callers : frames[t].op = "request_action"

\* the request dict carries both counts, and the count of the approvals stored
HasFreshCounts(out) ==
    /\ out.required_approvals # None
    /\ out.approved_count # None
    /\ out.row.id \in DOMAIN action_requests
    /\ out.approved_count[1] = Cardinality(Approving(action_requests[out.row.id]))

\* C30: every action request returned by request_action, approve_action and
\* execute_action and by the GET endpoints of the requests carries required_approvals
\* and approved_count, and approved_count is the number of approving approvals
\* stored for the request when it is returned.
C30_ReturnedRequestsCarryCounts ==
    \A r \in Responses :
        /\ r.body.request # None => HasFreshCounts(r.body.request[1])
        /\ r.body.requests # None =>
               \A i \in DOMAIN r.body.requests[1] : HasFreshCounts(r.body.requests[1][i])


\* the numbers of the events a stream has yielded, in the order of the yields
YieldedNos(s) == [i \in DOMAIN received[s] |-> received[s][i].payload.n]

\* C29: a started stream does not end on its own and does not stay in get: when the
\* queue has stayed empty for timeout seconds it yields one envelope of type
\* 'keepalive' with an empty payload and takes nothing; otherwise it takes the
\* oldest event of its queue and yields it, so that the events it takes are yielded
\* once each, in the order in which they were queued.
C29_StreamKeepsYielding ==
    /\ [][\A s \in DOMAIN streams :
             streams[s].pc = "get" =>
                 /\ streams'[s].pc # "ended"
                 /\ streams'[s].pc = "yield" =>
                        IF client_queues[s] = << >>
                        THEN /\ streams'[s].yielded =
                                    Some([type |-> "keepalive", payload |-> << >>])
                             /\ client_queues'[s] = << >>
                             /\ received' = received
                        ELSE /\ streams'[s].yielded = Some(Head(client_queues[s]))
                             /\ client_queues'[s] = Tail(client_queues[s])
                             /\ s \in Followed =>
                                    received'[s] =
                                        Append(received[s], Head(client_queues[s]))]_vars
    /\ [](\A s \in Followed :
             \A i, j \in DOMAIN received[s] :
                 i < j => YieldedNos(s)[i] < YieldedNos(s)[j])
    /\ \A s \in 1..MaxStreams :
           []<>(s \in DOMAIN streams => streams[s].pc # "get")

\* C29 witness: a stream that has yielded the one event emitted yields a keepalive
\* from its empty queue
C29_KeepaliveAfterEvent ==
    \E s \in Followed :
        /\ Len(received[s]) = 1
        /\ client_queues[s] = << >>
        /\ streams[s].pc = "yield"
        /\ streams[s].yielded = Some([type |-> "keepalive", payload |-> << >>])

---------------------------------------------------------------------------
(* Locks: the calls that enter a `with` block of the service, at the grain of  *)
(* the lock.  A caller reaches the `with` statement, takes the lock when no    *)
(* caller holds it (threading.Lock is not reentrant), runs the block and       *)
(* releases the lock as it leaves the block.                                   *)

LockCallers == {"k1", "k2"}

\* the callers holding a lock of the service
Holders(lock) == {t \in Callers : lock \in frames[t].held}

\* the end of a `with lock:` block
Release(f, lock) == [f EXCEPT !.held = @ \ {lock}]

\* what no call of the lock-level model writes
lock_rest == <<action_requests, action_audit_log, now, exec_log, probe, drone_sessions,
               ingest_vars, manifest_vars, route_vars, received, emit_overlap>>

\* get_policy_state, line 130: the caller reaches `with self._policy_lock`
get_policy_state_with(t) ==
    /\ CanCall(t)
    /\ frames' = [frames EXCEPT ![t] =
           [NewFrame("get_policy_state", "with_policy_lock", 0, << >>) EXCEPT
               !.held = frames[t].held]]
    /\ calls' = calls + 1
    /\ UNCHANGED <<lock_rest, last_arm, policy, emitted, subscribers, client_queues, streams>>

\* arm_actions, lines 141-142: the duration is clamped, the caller reaches the `with`
arm_actions_with(t) ==
    \E actor \in ArmActors, incident_id \in IncidentIds, d \in Durations :
        /\ CanCall(t)
        /\ frames' = [frames EXCEPT ![t] =
               [NewFrame("arm_actions", "with_policy_lock", incident_id, actor) EXCEPT
                   !.reason = Some(s_reason),
                   !.args = Some([duration_seconds |-> d]),
                   !.held = frames[t].held]]
        /\ calls' = calls + 1
        /\ UNCHANGED <<lock_rest, last_arm, policy, emitted, subscribers, client_queues,
                       streams>>

\* disarm_actions, line 154: the caller reaches `with self._policy_lock`
disarm_actions_with(t) ==
    \E actor \in {s_op1}, reason \in {None} :
        /\ CanCall(t)
        /\ frames' = [frames EXCEPT ![t] =
               [NewFrame("disarm_actions", "with_policy_lock", 0, actor) EXCEPT
                   !.reason = reason, !.held = frames[t].held]]
        /\ calls' = calls + 1
        /\ UNCHANGED <<lock_rest, last_arm, policy, emitted, subscribers, client_queues,
                       streams>>

\* the caller is at `with self._policy_lock`; execute_action is there after its first
\* store call, at the get_policy_state call of line 518
AtPolicyLock(f) ==
    f.pc = "with_policy_lock" \/ (f.op = "execute_action" /\ f.pc = "policy")

\* `with self._policy_lock:` entered, lines 130, 142 and 154
policy_lock_acquire(t) ==
    /\ AtPolicyLock(frames[t])
    /\ Holders("_policy_lock") = {}
    /\ frames' = [frames EXCEPT ![t].pc = "policy_locked",
                                ![t].held = @ \cup {"_policy_lock"}]
    /\ UNCHANGED <<lock_rest, last_arm, policy, emitted, subscribers, client_queues,
                   streams, calls>>

\* get_policy_state, line 131, and the end of the block
get_policy_state_locked(t) ==
    /\ frames[t].op = "get_policy_state" /\ frames[t].pc = "policy_locked"
    /\ policy' = PolicyAfterRead(policy, now)
    /\ frames' = [frames EXCEPT ![t] =
           Return(Release(@, "_policy_lock"), Some(_policy_state_locked(policy, now)))]
    /\ UNCHANGED <<lock_rest, last_arm, emitted, subscribers, client_queues, streams, calls>>

\* arm_actions whose _emit call is inside the `with` block
arm_actions_locked_EmitsInside(t) ==
    /\ frames[t].op = "arm_actions" /\ frames[t].pc = "policy_locked"
    /\ LET d == frames[t].args[1].duration_seconds
           p == ArmedPolicy(frames[t].who, s_reason, frames[t].request_id, d, now)
       IN  /\ policy' = PolicyAfterRead(p, now)
           /\ last_arm' = Some(ArmCall(frames[t].who, s_reason, frames[t].request_id, d, now))
           /\ frames' = [frames EXCEPT ![t] =
                  [@ EXCEPT !.state = Some(_policy_state_locked(p, now)), !.pc = "emit"]]
    /\ UNCHANGED <<lock_rest, emitted, subscribers, client_queues, streams, calls>>

\* arm_actions, lines 143-147, and the end of the block
arm_actions_locked(t) ==
    /\ frames[t].op = "arm_actions" /\ frames[t].pc = "policy_locked"
    /\ LET d == frames[t].args[1].duration_seconds
           p == ArmedPolicy(frames[t].who, s_reason, frames[t].request_id, d, now)
       IN  /\ policy' = PolicyAfterRead(p, now)
           /\ last_arm' = Some(ArmCall(frames[t].who, s_reason, frames[t].request_id, d, now))
           /\ frames' = [frames EXCEPT ![t] =
                  Release([@ EXCEPT !.state = Some(_policy_state_locked(p, now)),
                                    !.pc = "emit"], "_policy_lock")]
    /\ UNCHANGED <<lock_rest, emitted, subscribers, client_queues, streams, calls>>

\* disarm_actions, lines 155-159, and the end of the block
disarm_actions_locked(t) ==
    /\ frames[t].op = "disarm_actions" /\ frames[t].pc = "policy_locked"
    /\ policy' = PolicyAfterRead(Disarmed, now)
    /\ last_arm' = None
    /\ frames' = [frames EXCEPT ![t] =
           Release([@ EXCEPT !.state = Some(_policy_state_locked(Disarmed, now)),
                             !.pc = "emit"], "_policy_lock")]
    /\ UNCHANGED <<lock_rest, emitted, subscribers, client_queues, streams, calls>>

\* execute_action, lines 518-527 with 130-131: the policy read under the lock, the end
\* of the block, then the approvals read at line 514 are counted
execute_action_locked(t) ==
    /\ frames[t].op = "execute_action" /\ frames[t].pc = "policy_locked"
    /\ policy' = PolicyAfterRead(policy, now)
    /\ LET state == _policy_state_locked(policy, now)
           n     == ApprovedCount(frames[t].req[1].approvals)
           r     == required_approvals(Some(frames[t].req[1].action_type))
           err   == ExecuteGate(state.armed, n, r)
       IN  frames' = [frames EXCEPT ![t] =
               IF err = None
               THEN Release([@ EXCEPT !.state = Some(state), !.approved_count = n,
                                      !.required = r, !.pc = "update"], "_policy_lock")
               ELSE Return(Release(@, "_policy_lock"),
                           Some([req |-> None, error |-> err]))]
    /\ UNCHANGED <<lock_rest, last_arm, emitted, subscribers, client_queues, streams, calls>>

\* the envelope of the _emit call at line 149, 161 or 544
PolicyEnvelope(f) ==
    IF f.op = "arm_actions"
    THEN Envelope("policy_armed",
             [actor |-> f.who, reason |-> f.reason, incident_id |-> f.request_id,
              state |-> f.state[1]])
    ELSE IF f.op = "disarm_actions"
    THEN Envelope("policy_disarmed",
             [actor |-> f.who, reason |-> f.reason, state |-> f.state[1]])
    ELSE Envelope("action_executed",
             [request |-> Returned(f.req[1], Some(f.required), Some(f.approved_count))])

\* lines 149, 161 and 544 call _emit, lines 72-77: the envelope is made and the caller
\* reaches `with self._subs_lock`; from here on the frame is that of _emit
emit_with(t) ==
    /\ frames[t].op \in {"arm_actions", "disarm_actions", "execute_action"}
    /\ frames[t].pc = "emit"
    /\ emitted' = Append(emitted, PolicyEnvelope(frames[t]))
    /\ frames' = [frames EXCEPT ![t] =
           [NewFrame("_emit", "with_subs_lock", 0, << >>) EXCEPT
               !.args = Some([envelope |-> PolicyEnvelope(frames[t])]),
               !.held = frames[t].held]]
    /\ UNCHANGED <<lock_rest, last_arm, policy, subscribers, client_queues, streams, calls>>

\* `with self._subs_lock:` entered, lines 77, 94 and 104
subs_lock_acquire(t) ==
    /\ frames[t].pc = "with_subs_lock"
    /\ Holders("_subs_lock") = {}
    /\ frames' = [frames EXCEPT ![t].pc = "subs_locked",
                                ![t].held = @ \cup {"_subs_lock"}]
    /\ UNCHANGED <<lock_rest, last_arm, policy, emitted, subscribers, client_queues,
                   streams, calls>>

\* _emit, line 78, and the end of the block: the subscribers are copied
emit_locked(t) ==
    /\ frames[t].op = "_emit" /\ frames[t].pc = "subs_locked"
    /\ \E todo \in Orders(subscribers) :
           frames' = [frames EXCEPT ![t] =
               IF subscribers = {}
               THEN Return(Release(@, "_subs_lock"), None)
               ELSE Release([@ EXCEPT !.pc = "put", !.loc = Some([todo |-> todo])],
                            "_subs_lock")]
    /\ UNCHANGED <<lock_rest, last_arm, policy, emitted, subscribers, client_queues,
                   streams, calls>>

\* stream_events, lines 92-94, run by the consumer's first next(): the queue is made
\* and the consumer reaches `with self._subs_lock`
stream_events_with(t) ==
    /\ CanCall(t)
    /\ Len(streams) < MaxStreams
    /\ client_queues' = Append(client_queues, << >>)
    /\ streams' = Append(streams, [pc |-> "subscribe", yielded |-> None])
    /\ frames' = [frames EXCEPT ![t] =
           [NewFrame("stream_events", "with_subs_lock", Len(streams) + 1, << >>) EXCEPT
               !.held = frames[t].held]]
    /\ calls' = calls + 1
    /\ UNCHANGED <<lock_rest, last_arm, policy, emitted, subscribers>>

\* stream_events, line 95, and the end of the block; the generator enters get
stream_events_locked(t) ==
    /\ frames[t].op = "stream_events" /\ frames[t].pc = "subs_locked"
    /\ subscribers' = subscribers \cup {frames[t].request_id}
    /\ streams' = [streams EXCEPT ![frames[t].request_id] = StartedStream]
    /\ frames' = [frames EXCEPT ![t] = Return(Release(@, "_subs_lock"), None)]
    /\ UNCHANGED <<lock_rest, last_arm, policy, emitted, client_queues, calls>>

\* stream_events, lines 103-104: the consumer closes the generator suspended at a
\* yield, and reaches `with self._subs_lock` in the finally clause
stream_events_finally(t) ==
    \E s \in DOMAIN streams :
        /\ CanCall(t)
        /\ streams[s].pc = "yield"
        /\ streams' = [streams EXCEPT ![s] = [pc |-> "finally", yielded |-> None]]
        /\ frames' = [frames EXCEPT ![t] =
               [NewFrame("stream_events.close", "with_subs_lock", s, << >>) EXCEPT
                   !.held = frames[t].held]]
        /\ calls' = calls + 1
        /\ UNCHANGED <<lock_rest, last_arm, policy, emitted, subscribers, client_queues>>

\* stream_events, line 105, and the end of the block
stream_events_discard(t) ==
    /\ frames[t].op = "stream_events.close" /\ frames[t].pc = "subs_locked"
    /\ subscribers' = subscribers \ {frames[t].request_id}
    /\ streams' = [streams EXCEPT ![frames[t].request_id] =
           [pc |-> "ended", yielded |-> None]]
    /\ frames' = [frames EXCEPT ![t] = Return(Release(@, "_subs_lock"), None)]
    /\ UNCHANGED <<lock_rest, last_arm, policy, emitted, client_queues, calls>>

\* two callers, one approved request, and one stream suspended at the yield of a
\* keepalive, whose queue is empty or full after as many events were emitted since
InitLock ==
    \E n \in {0, QueueMaxSize} :
        /\ action_requests =
               update_action_request_status(
                   add_action_approval(
                       create_action_request(<< >>, 1, s_passive_spectrum_capture, s_op1),
                       1, s_sa, s_approved),
                   1, "approved", None)
        /\ action_audit_log =
               add_action_audit_log(add_action_audit_log(<< >>, 1, "requested", s_op1),
                                    1, "approval", s_sa)
        /\ policy = Disarmed
        /\ now = 0
        /\ emitted = QueueOf(n)
        /\ frames = [t \in LockCallers |-> IdleFrame]
        /\ exec_log = << >>
        /\ calls = 0
        /\ last_arm = None
        /\ probe = NoProbe
        /\ drone_sessions = << >>
        /\ drone_detections = << >>
        /\ drone_tracks = << >>
        /\ drone_correlations = << >>
        /\ drone_incidents = << >>
        /\ evidence_manifests = << >>
        /\ manifest_log = << >>
        /\ http = << >>
        /\ subscribers = {1}
        /\ client_queues = <<QueueOf(n)>>
        /\ streams = <<[pc |-> "yield", yielded |-> Some(Envelope("keepalive", << >>))]>>
        /\ received = << >>
        /\ emit_overlap = {}
        /\ upsert_log = << >>

\* the steps of a call in progress of caller t
LockStep(t) ==
    \/ policy_lock_acquire(t)
    \/ get_policy_state_locked(t)
    \/ arm_actions_locked(t)
    \/ disarm_actions_locked(t)
    \/ execute_action_locked(t)
    \/ execute_action_update(t)
    \/ execute_action_audit(t)
    \/ execute_action_read(t)
    \/ emit_with(t)
    \/ subs_lock_acquire(t)
    \/ emit_locked(t)
    \/ emit_put(t)
    \/ emit_drop(t)
    \/ emit_retry(t)
    \/ stream_events_locked(t)
    \/ stream_events_discard(t)

NextLock ==
    \/ \E t \in Callers : get_policy_state_with(t)
    \/ \E t \in Callers : arm_actions_with(t)
    \/ \E t \in Callers : disarm_actions_with(t)
    \/ \E t \in Callers : stream_events_with(t)
    \/ \E t \in Callers : stream_events_finally(t)
    \/ \E t \in Callers : execute_action(t)
    \/ \E t \in Callers : execute_action_locked(t)
    \/ \E t \in Callers : execute_action_update(t)
    \/ \E t \in Callers : execute_action_audit(t)
    \/ \E t \in Callers : execute_action_read(t)
    \/ \E t \in Callers : policy_lock_acquire(t)
    \/ \E t \in Callers : get_policy_state_locked(t)
    \/ \E t \in Callers : arm_actions_locked(t)
    \/ \E t \in Callers : disarm_actions_locked(t)
    \/ \E t \in Callers : emit_with(t)
    \/ \E t \in Callers : subs_lock_acquire(t)
    \/ \E t \in Callers : emit_locked(t)
    \/ \E t \in Callers : emit_put(t)
    \/ \E t \in Callers : emit_drop(t)
    \/ \E t \in Callers : emit_retry(t)
    \/ \E t \in Callers : stream_events_locked(t)
    \/ \E t \in Callers : stream_events_discard(t)

SpecLock == InitLock /\ [][NextLock]_vars

\* every thread inside a call is scheduled
SpecLockFair == SpecLock /\ \A t \in LockCallers : WF_vars(LockStep(t))

\* ---- C31 ----
\* the steps of execute_action that are store calls, and the steps of _emit that insert
\* into a queue
StorePcs == {"update", "audit", "read"}
PutPcs == {"put", "drop", "retry"}

\* caller t waits for a lock whose holder waits for a lock in turn
WaitsOnWaiter(t) ==
    \/ /\ AtPolicyLock(frames[t])
       /\ \E u \in Holders("_policy_lock") :
              AtPolicyLock(frames[u]) \/ frames[u].pc = "with_subs_lock"
    \/ /\ frames[t].pc = "with_subs_lock"
       /\ \E u \in Holders("_subs_lock") :
              AtPolicyLock(frames[u]) \/ frames[u].pc = "with_subs_lock"

C31_LockDiscipline ==
    /\ \A lock \in {"_policy_lock", "_subs_lock"} : Cardinality(Holders(lock)) <= 1
    /\ \A t \in Callers :
        /\ ~({"_policy_lock", "_subs_lock"} \subseteq frames[t].held)
        /\ frames[t].pc \in StorePcs => frames[t].held = {}
        /\ frames[t].pc \in PutPcs => "_subs_lock" \notin frames[t].held
        /\ frames[t].pc = "done" => frames[t].held = {}
        /\ ~WaitsOnWaiter(t)

C31_AllReleased == \A t \in LockCallers : frames[t].held = {}

\* C31: no caller holds _subs_lock and _policy_lock together, holds a lock at a store
\* call or holds _subs_lock at a queue insertion; no caller waits for a lock whose holder
\* waits itself, a lock taken is released before the call returns, and with every thread
\* scheduled the locks are free again and again.
C31_NoLockHeldAcross ==
    /\ []C31_LockDiscipline
    /\ []<>C31_AllReleased

\* witness: one caller is putting an envelope on a queue, having released _subs_lock,
\* while the other holds _policy_lock
C31_PutWhileOtherLocked ==
    \E t, u \in Callers :
        /\ frames[t].op = "_emit" /\ frames[t].pc = "put"
        /\ frames[u].pc = "policy_locked"
        /\ "_policy_lock" \in frames[u].held

---------------------------------------------------------------------------
(* Remote ID decoder (utils/drone/remote_id.py).  A payload is a JSON value, a   *)
(* str or bytes.  A float is held in hundredths: JFloat(3500) is 35.0.           *)

k_uas_id == <<"u","a","s","_","i","d">>
k_drone_id == <<"d","r","o","n","e","_","i","d">>
k_serial_number == <<"s","e","r","i","a","l","_","n","u","m","b","e","r">>
k_serial == <<"s","e","r","i","a","l">>
k_uasId == <<"u","a","s","I","d">>
k_operator_id == <<"o","p","e","r","a","t","o","r","_","i","d">>
k_pilot_id == <<"p","i","l","o","t","_","i","d">>
k_operator == <<"o","p","e","r","a","t","o","r">>
k_operatorId == <<"o","p","e","r","a","t","o","r","I","d">>
k_lat == <<"l","a","t">>
k_latitude == <<"l","a","t","i","t","u","d","e">>
k_lon == <<"l","o","n">>
k_lng == <<"l","n","g">>
k_longitude == <<"l","o","n","g","i","t","u","d","e">>
k_alt == <<"a","l","t">>
k_altitude == <<"a","l","t","i","t","u","d","e">>
k_altitude_m == <<"a","l","t","i","t","u","d","e","_","m">>
k_height == <<"h","e","i","g","h","t">>
k_speed == <<"s","p","e","e","d">>
k_speed_mps == <<"s","p","e","e","d","_","m","p","s">>
k_ground_speed == <<"g","r","o","u","n","d","_","s","p","e","e","d">>
k_heading == <<"h","e","a","d","i","n","g">>
k_heading_deg == <<"h","e","a","d","i","n","g","_","d","e","g">>
k_course == <<"c","o","u","r","s","e">>
k_remote_id == <<"r","e","m","o","t","e","_","i","d">>
k_message == <<"m","e","s","s","a","g","e">>
k_uas == <<"u","a","s">>
k_position == <<"p","o","s","i","t","i","o","n">>
k_raw == <<"r","a","w">>

JBool(b) == [k |-> "bool", bool |-> b]
JFloat(c) == [k |-> "float", cent |-> c]
\* float('nan')
JNan == [k |-> "nan"]

DRONE_ID_KEYS == <<k_uas_id, k_drone_id, k_serial_number, k_serial, k_id, k_uasId>>
OPERATOR_ID_KEYS == <<k_operator_id, k_pilot_id, k_operator, k_operatorId>>
LAT_KEYS == <<k_lat, k_latitude>>
LON_KEYS == <<k_lon, k_lng, k_longitude>>
ALT_KEYS == <<k_alt, k_altitude, k_altitude_m, k_height>>
SPEED_KEYS == <<k_speed, k_speed_mps, k_ground_speed>>
HEADING_KEYS == <<k_heading, k_heading_deg, k_course>>

\* bool(value)
Truthy(v) ==
    CASE v.k = "null" -> FALSE
      [] v.k = "bool" -> v.bool
      [] v.k = "int" -> v.int # 0
      [] v.k = "float" -> v.cent # 0
      [] v.k = "str" -> v.str # << >>
      [] v.k = "list" -> v.items # << >>
      [] v.k = "dict" -> v.pairs # << >>
      [] OTHER -> TRUE

DigitChars == <<"0","1","2","3","4","5","6","7","8","9">>
IsDigit(c) == c \in {DigitChars[i] : i \in DOMAIN DigitChars}
DigitValue(c) == (CHOOSE i \in DOMAIN DigitChars : DigitChars[i] = c) - 1

\* the number of digits s starts with from position i
DigitRun(s, i) ==
    LET stops == {j \in i..(Len(s) + 1) : j > Len(s) \/ ~IsDigit(s[j])}
    IN  IF i > Len(s) THEN 0 ELSE (CHOOSE j \in stops : \A k \in stops : j <= k) - i

\* int() of a str of digits
RECURSIVE DigitsValue(_)
DigitsValue(s) ==
    IF s = << >> THEN 0 ELSE 10 * DigitsValue(SubSeq(s, 1, Len(s) - 1)) + DigitValue(s[Len(s)])

\* the hundredths a fraction part of one or two digits stands for
FractionCent(s) == IF Len(s) = 1 THEN 10 * DigitValue(s[1]) ELSE DigitsValue(SubSeq(s, 1, 2))

s_nan == <<"n","a","n">>

\* float(text) of a str, as sign, whole part and hundredths: white space is stripped, then [sign] digits [. digits] or nan;
\* None stands for ValueError.  Fractions are of at most two digits, and the exponent,
\* underscore and infinity forms are left out: no input has them.
ParseDecimal(text) ==
    LET s == Strip(text)
        signed == s # << >> /\ Head(s) \in {"-", "+"}
        body == IF signed THEN Tail(s) ELSE s
        n == DigitRun(body, 1)
        sign == IF signed /\ Head(s) = "-" THEN -1 ELSE 1
        Dec(w, c) == Some([k |-> "dec", sign |-> sign, w |-> w, c |-> c])
    IN  IF Lower(body) = s_nan THEN Some(JNan)
        ELSE IF n = 0 THEN None
        ELSE IF n = Len(body) THEN Dec(DigitsValue(body), 0)
        ELSE IF body[n + 1] = "." /\ n + 1 = Len(body)
             THEN Dec(DigitsValue(SubSeq(body, 1, n)), 0)
        ELSE IF body[n + 1] = "." /\ DigitRun(body, n + 2) = Len(body) - n - 1
                /\ Len(body) - n - 1 <= 2
             THEN Dec(DigitsValue(SubSeq(body, 1, n)),
                      FractionCent(SubSeq(body, n + 2, Len(body))))
        ELSE None

\* the float of a text, in hundredths
ParseFloat(text) ==
    LET p == ParseDecimal(text)
    IN  IF p = None \/ p[1].k = "nan" THEN p
        ELSE Some(JFloat(p[1].sign * (100 * p[1].w + p[1].c)))

\* _coerce_float: None for None, '' and what float() refuses
_coerce_float(value) ==
    CASE value.k = "null" -> None
      [] value.k = "str" -> IF value.str = << >> THEN None ELSE ParseFloat(value.str)
      [] value.k = "int" -> Some(JFloat(100 * value.int))
      [] value.k = "bool" -> Some(JFloat(IF value.bool THEN 100 ELSE 0))
      [] value.k = "float" -> Some(value)
      [] value.k = "nan" -> Some(value)
      [] OTHER -> None

\* _get_nested for one dotted path, split at the dots; None when a part is missing
RECURSIVE _get_nested(_, _)
_get_nested(data, path) ==
    IF path = << >> THEN data
    ELSE IF data.k # "dict" \/ JGet(data, Head(path)) = None THEN JNull
    ELSE _get_nested(JGet(data, Head(path))[1], Tail(path))

\* the pairs (prefix, key) in the order of the loops of _pick
NestedPaths(keys, nested_prefixes) ==
    [n \in 1..(Len(keys) * Len(nested_prefixes)) |->
        <<nested_prefixes[((n - 1) \div Len(keys)) + 1], keys[((n - 1) % Len(keys)) + 1]>>]

\* _pick: the value of the first key the dict has, else the first nested hit, else None
_pick(data, keys, nested_prefixes) ==
    LET top == {i \in DOMAIN keys : JGet(data, keys[i]) # None}
        paths == NestedPaths(keys, nested_prefixes)
        hits == {n \in DOMAIN paths : _get_nested(data, paths[n]).k # "null"}
    IN  IF top # {} THEN JGet(data, keys[CHOOSE i \in top : \A j \in top : i <= j])[1]
        ELSE IF hits # {}
             THEN _get_nested(data, paths[CHOOSE n \in hits : \A m \in hits : n <= m])
             ELSE JNull

\* a float in hundredths as Python prints it, for values of at most two decimals
FloatStr(c) ==
    LET a == IF c < 0 THEN -c ELSE c
        frac == IF a % 10 = 0 THEN IntToStr((a % 100) \div 10)
                ELSE IntToStr((a % 100) \div 10) \o IntToStr(a % 10)
    IN  (IF c < 0 THEN <<"-">> ELSE << >>) \o IntToStr(a \div 100) \o <<".">> \o frac

\* repr(value) and str(value); they differ on a str only
RECURSIVE PyRepr(_)
RECURSIVE PyReprItems(_)
RECURSIVE PyReprPairs(_)
PyRepr(v) ==
    CASE v.k = "null" -> <<"N","o","n","e">>
      [] v.k = "bool" -> IF v.bool THEN <<"T","r","u","e">> ELSE <<"F","a","l","s","e">>
      [] v.k = "int" -> IF v.int < 0 THEN <<"-">> \o IntToStr(-v.int) ELSE IntToStr(v.int)
      [] v.k = "float" -> FloatStr(v.cent)
      [] v.k = "nan" -> s_nan
      [] v.k = "str" -> <<"'">> \o v.str \o <<"'">>
      [] v.k = "list" -> <<"[">> \o PyReprItems(v.items) \o <<"]">>
      [] v.k = "dict" -> <<"{">> \o PyReprPairs(v.pairs) \o <<"}">>
PyReprItems(items) ==
    IF items = << >> THEN << >>
    ELSE PyRepr(Head(items))
             \o (IF Len(items) = 1 THEN << >> ELSE <<",", " ">> \o PyReprItems(Tail(items)))
PyReprPairs(pairs) ==
    IF pairs = << >> THEN << >>
    ELSE <<"'">> \o Head(pairs)[1] \o <<"'", ":", " ">> \o PyRepr(Head(pairs)[2])
             \o (IF Len(pairs) = 1 THEN << >> ELSE <<",", " ">> \o PyReprPairs(Tail(pairs)))
PyStr(v) == IF v.k = "str" THEN v.str ELSE PyRepr(v)

\* str(value).strip() if value else None
StrippedOrNone(v) == IF Truthy(v) THEN Some(Strip(PyStr(v))) ELSE None

\* the confidence with the position counted as soon as a latitude is found
Confidence_LatAlone(drone_id, operator_id, lat, lon, altitude_m) ==
    Min(1000, (IF Truthy(drone_id) THEN 350 ELSE 0)
              + (IF lat # None THEN 350 ELSE 0)
              + (IF altitude_m # None THEN 150 ELSE 0)
              + (IF Truthy(operator_id) THEN 150 ELSE 0))

\* lines 81-98: the confidence, in thousandths; round(., 3) leaves a sum of the four
\* weights as it is
Confidence(drone_id, operator_id, lat, lon, altitude_m) ==
    Min(1000, (IF Truthy(drone_id) THEN 350 ELSE 0)
              + (IF lat # None /\ lon # None THEN 350 ELSE 0)
              + (IF altitude_m # None THEN 150 ELSE 0)
              + (IF Truthy(operator_id) THEN 150 ELSE 0))

s_remote_id_prefixes_uas == <<k_remote_id, k_message, k_uas>>
s_remote_id_prefixes_operator == <<k_remote_id, k_message, k_operator>>
s_remote_id_prefixes_position == <<k_remote_id, k_message, k_position>>

\* lines 91-122 of decode_remote_id_payload: the confidence and the dict returned, on the
\* values picked
Built(data, fmt, drone_id, operator_id, lat, lon, altitude_m, speed_mps, heading_deg) ==
    LET confidence == Confidence(drone_id, operator_id, lat, lon, altitude_m)
    IN  [detected |-> Truthy(drone_id)
                        \/ (lat # None /\ lon # None /\ confidence >= 350),
         source_format |-> fmt,
         uas_id |-> StrippedOrNone(drone_id),
         operator_id |-> StrippedOrNone(operator_id),
         lat |-> lat, lon |-> lon, altitude_m |-> altitude_m,
         speed_mps |-> speed_mps, heading_deg |-> heading_deg,
         confidence |-> confidence,
         raw |-> data]

\* lines 81-122 of decode_remote_id_payload, on the data and format of _normalize_input
Decoded(data, fmt) ==
    Built(data, fmt,
          _pick(data, DRONE_ID_KEYS, s_remote_id_prefixes_uas),
          _pick(data, OPERATOR_ID_KEYS, s_remote_id_prefixes_operator),
          _coerce_float(_pick(data, LAT_KEYS, s_remote_id_prefixes_position)),
          _coerce_float(_pick(data, LON_KEYS, s_remote_id_prefixes_position)),
          _coerce_float(_pick(data, ALT_KEYS, s_remote_id_prefixes_position)),
          _coerce_float(_pick(data, SPEED_KEYS, s_remote_id_prefixes_position)),
          _coerce_float(_pick(data, HEADING_KEYS, s_remote_id_prefixes_position)))

\* bytes.decode('utf-8', errors='replace') of ASCII bytes and of the byte 0xFF, which no
\* UTF-8 sequence has: it becomes U+FFFD, held by a name
DecodeByte(b) ==
    CASE b = 9 -> "\t"
      [] b = 10 -> "\n"
      [] b = 13 -> "\r"
      [] b \in 32..126 -> Ascii[b - 31]
      [] OTHER -> "U+FFFD"
DecodeUtf8(bytes) == [i \in DOMAIN bytes |-> DecodeByte(bytes[i])]

JBytes(bytes) == [k |-> "bytes", bytes |-> bytes]

\* json.loads: the result of scanning one value, or the failure that raises
\* JSONDecodeError
JsonFail == [ok |-> FALSE, val |-> JNull, next |-> 0]
JsonOk(v, n) == [ok |-> TRUE, val |-> v, next |-> n]
\* json.loads raises an error that is no JSONDecodeError
JsonRaised == [ok |-> FALSE, val |-> JNull, next |-> -1]

\* sys.int_info.default_max_str_digits: int() of more digits raises ValueError, and
\* json.loads makes an integer with int()
INT_MAX_STR_DIGITS == 4300

RECURSIVE SkipWs(_, _)
SkipWs(s, i) == IF i <= Len(s) /\ IsSpace(s[i]) THEN SkipWs(s, i + 1) ELSE i

HasAt(s, i, word) == i + Len(word) - 1 <= Len(s) /\ SubSeq(s, i, i + Len(word) - 1) = word

\* a string from the character after its opening quote; of the escapes, the quote, the
\* backslash and the slash are read and the others are in no input
RECURSIVE ScanString(_, _, _)
ScanString(s, i, acc) ==
    IF i > Len(s) THEN JsonFail
    ELSE IF s[i] = "\"" THEN JsonOk(JStr(acc), i + 1)
    ELSE IF s[i] = "\\"
         THEN IF i + 1 <= Len(s) /\ s[i + 1] \in {"\"", "\\", "/"}
              THEN ScanString(s, i + 2, Append(acc, s[i + 1]))
              ELSE JsonFail
    ELSE IF s[i] \in {"\t", "\n", "\r"} THEN JsonFail
    ELSE ScanString(s, i + 1, Append(acc, s[i]))

\* a number -?(0|[1-9][0-9]*)(.[0-9]+)?; the exponent is in no input; an integer of
\* more than INT_MAX_STR_DIGITS digits raises ValueError
ScanNumber(s, i) ==
    LET neg == s[i] = "-"
        j == IF neg THEN i + 1 ELSE i
        run == DigitRun(s, j)
        n == IF run > 0 /\ s[j] = "0" THEN 1 ELSE run
        whole == DigitsValue(SubSeq(s, j, j + n - 1))
        m == IF j + n <= Len(s) /\ s[j + n] = "." THEN DigitRun(s, j + n + 1) ELSE 0
        sign == IF neg THEN -1 ELSE 1
    IN  IF n = 0 THEN JsonFail
        ELSE IF m = 0
             THEN IF n > INT_MAX_STR_DIGITS THEN JsonRaised ELSE JsonOk(JInt(sign * whole), j + n)
        ELSE JsonOk(JFloat(sign * (100 * whole
                                   + FractionCent(SubSeq(s, j + n + 1, j + n + m)))),
                    j + n + 1 + m)

s_true == <<"t","r","u","e">>
s_false == <<"f","a","l","s","e">>
s_null == <<"n","u","l","l">>
s_NaN == <<"N","a","N">>

RECURSIVE ParseValue(_, _)
RECURSIVE ParseMembers(_, _, _)
RECURSIVE ParseElements(_, _, _)
\* the value that starts at position i
ParseValue(s, i) ==
    IF i > Len(s) THEN JsonFail
    ELSE IF s[i] = "{"
         THEN LET j == SkipWs(s, i + 1)
              IN  IF j <= Len(s) /\ s[j] = "}" THEN JsonOk(JDict(<< >>), j + 1)
                  ELSE ParseMembers(s, j, JDict(<< >>))
    ELSE IF s[i] = "["
         THEN LET j == SkipWs(s, i + 1)
              IN  IF j <= Len(s) /\ s[j] = "]" THEN JsonOk(JList(<< >>), j + 1)
                  ELSE ParseElements(s, j, << >>)
    ELSE IF s[i] = "\"" THEN ScanString(s, i + 1, << >>)
    ELSE IF HasAt(s, i, s_true) THEN JsonOk(JBool(TRUE), i + 4)
    ELSE IF HasAt(s, i, s_false) THEN JsonOk(JBool(FALSE), i + 5)
    ELSE IF HasAt(s, i, s_null) THEN JsonOk(JNull, i + 4)
    ELSE IF HasAt(s, i, s_NaN) THEN JsonOk(JNan, i + 3)
    ELSE IF s[i] = "-" \/ IsDigit(s[i]) THEN ScanNumber(s, i)
    ELSE JsonFail
\* the members of an object from the quote of a key on; a repeated key keeps its last value
ParseMembers(s, i, acc) ==
    IF i > Len(s) \/ s[i] # "\"" THEN JsonFail
    ELSE LET key == ScanString(s, i + 1, << >>)
             colon == IF key.ok THEN SkipWs(s, key.next) ELSE 0
             value == IF key.ok /\ colon <= Len(s) /\ s[colon] = ":"
                      THEN ParseValue(s, SkipWs(s, colon + 1))
                      ELSE JsonFail
             after == IF value.ok THEN SkipWs(s, value.next) ELSE 0
         IN  IF ~value.ok THEN value
             ELSE IF after > Len(s) THEN JsonFail
             ELSE IF s[after] = "}"
                  THEN JsonOk(JWith(acc, key.val.str, value.val), after + 1)
             ELSE IF s[after] = ","
                  THEN ParseMembers(s, SkipWs(s, after + 1),
                                    JWith(acc, key.val.str, value.val))
             ELSE JsonFail
\* the elements of an array
ParseElements(s, i, acc) ==
    LET value == ParseValue(s, i)
        after == IF value.ok THEN SkipWs(s, value.next) ELSE 0
    IN  IF ~value.ok THEN value
        ELSE IF after > Len(s) THEN JsonFail
        ELSE IF s[after] = "]" THEN JsonOk(JList(Append(acc, value.val)), after + 1)
        ELSE IF s[after] = ","
             THEN ParseElements(s, SkipWs(s, after + 1), Append(acc, value.val))
        ELSE JsonFail

\* the result r of scanning the value text starts with: nothing but white space follows
WholeValue(text, r) ==
    IF r = JsonRaised \/ (r.ok /\ SkipWs(text, r.next) = Len(text) + 1) THEN r
    ELSE JsonFail

\* json.loads(text): one value and nothing but white space after it
json_loads(text) == WholeValue(text, ParseValue(text, SkipWs(text, 1)))

\* lines 62-74 of _normalize_input, on the stripped text and what json.loads makes of
\* it: line 69 catches JSONDecodeError alone, so another error of json.loads leaves the
\* function
FromParsed(text, parsed) ==
    IF text = << >> THEN [data |-> JDict(<< >>), fmt |-> "empty"]
    ELSE IF parsed = JsonRaised THEN [raised |-> "ValueError"]
    ELSE IF parsed.ok /\ parsed.val.k = "dict" THEN [data |-> parsed.val, fmt |-> "json"]
    ELSE [data |-> JDict(<<<<k_raw, JStr(text)>>>>), fmt |-> "raw"]
FromText(text) == FromParsed(text, json_loads(text))

\* _normalize_input: the data and the source format, or the error raised
_normalize_input(payload) ==
    IF payload.k = "dict" THEN [data |-> payload, fmt |-> "dict"]
    ELSE IF payload.k = "bytes" THEN FromText(Strip(DecodeUtf8(payload.bytes)))
    ELSE FromText(Strip(IF Truthy(payload) THEN PyStr(payload) ELSE << >>))

\* line 79 and what follows it, when _normalize_input returned
DecodedFrom(n) == IF "raised" \in DOMAIN n THEN n ELSE Decoded(n.data, n.fmt)

\* decode_remote_id_payload: the dict returned, or the error raised
decode_remote_id_payload(payload) == DecodedFrom(_normalize_input(payload))

---------------------------------------------------------------------------
(* Signature detectors (utils/drone/detector.py): WiFi and RF.  A score is held in  *)
(* thousandths, a frequency in hundredths of a MHz.                                 *)

k_bssid == <<"b","s","s","i","d">>
k_mac == <<"m","a","c">>
k_essid == <<"e","s","s","i","d">>
k_ssid == <<"s","s","i","d">>
k_display_name == <<"d","i","s","p","l","a","y","_","n","a","m","e">>
k_network == <<"n","e","t","w","o","r","k">>
k_frequency_mhz == <<"f","r","e","q","u","e","n","c","y","_","m","h","z">>
k_frequency == <<"f","r","e","q","u","e","n","c","y">>
k_frequency_hz == <<"f","r","e","q","u","e","n","c","y","_","h","z">>
k_text == <<"t","e","x","t">>
k_capture_id == <<"c","a","p","t","u","r","e","_","i","d">>

\* SSID_PATTERNS: the words of each pattern; a pattern is (^|[-_\s])(word|...)([-_\s]|$)
\* with IGNORECASE
SSID_PATTERNS ==
    << {<<"d","j","i">>, <<"m","a","v","i","c">>, <<"p","h","a","n","t","o","m">>, <<"i","n","s","p","i","r","e">>, <<"m","a","t","r","i","c","e">>, <<"m","i","n","i">>},
       {<<"p","a","r","r","o","t">>, <<"a","n","a","f","i">>, <<"b","e","b","o","p">>},
       {<<"a","u","t","e","l">>, <<"e","v","o">>},
       {<<"s","k","y","d","i","o">>, <<"y","u","n","e","e","c">>},
       {<<"u","a","s">>, <<"u","a","v">>, <<"d","r","o","n","e">>, <<"r","i","d">>, <<"o","p","e","n","d","r","o","n","e","i","d">>} >>

\* the keys of DRONE_OUI_PREFIXES
DRONE_OUI_PREFIXES ==
    { <<"6","0",":","6","0",":","1","F">>,
      <<"9","0",":","3","A",":","E","6">>,
      <<"3","4",":","D","2",":","6","2">>,
      <<"9","0",":","3","A",":","A","F">>,
      <<"0","0",":","1","2",":","1","C">>,
      <<"9","0",":","0","3",":","B","7">>,
      <<"4","8",":","1","C",":","B","9">>,
      <<"A","C",":","8","9",":","9","5">> }

\* RF_FREQ_HINTS_MHZ
RF_FREQ_HINTS_MHZ == <<31500, 43392, 86800, 91500, 120000, 240000, 580000>>


\* str.upper() on one character, and on a str
UpperChar(c) ==
    IF \E i \in 1..Len(LowerAlpha) : LowerAlpha[i] = c
    THEN UpperAlpha[CHOOSE i \in 1..Len(LowerAlpha) : LowerAlpha[i] = c]
    ELSE c
Upper(s) == [i \in 1..Len(s) |-> UpperChar(s[i])]

\* d.get(key)
Get(d, key) == IF JGet(d, key) = None THEN JNull ELSE JGet(d, key)[1]
\* a or b
PyOr(a, b) == IF Truthy(a) THEN a ELSE b
\* str(value or '')
StrOrEmpty(v) == IF Truthy(v) THEN PyStr(v) ELSE << >>

\* .upper().replace('-', ':') of a text, '' when it has less than 8 characters
MacOf(s) ==
    IF Len(s) >= 8
    THEN [i \in 1..Len(s) |-> IF UpperChar(s[i]) = "-" THEN ":" ELSE UpperChar(s[i])]
    ELSE << >>

\* _normalize_mac
_normalize_mac(value) == MacOf(Strip(StrOrEmpty(value)))

\* _extract_wifi_event: the network dict, or None
_extract_wifi_event(event) ==
    IF event.k # "dict" THEN None
    ELSE IF Get(event, k_network).k = "dict" THEN Some(Get(event, k_network))
    ELSE IF \E key \in {k_bssid, k_essid, k_ssid} : JGet(event, key) # None THEN Some(event)
    ELSE None

\* the maximal runs of characters of s between the separators -, _ and white space
RECURSIVE Pieces(_, _)
Pieces(s, acc) ==
    IF s = << >> THEN {acc}
    ELSE IF Head(s) \in {"-", "_"} \/ IsSpace(Head(s)) THEN {acc} \cup Pieces(Tail(s), << >>)
    ELSE Pieces(Tail(s), Append(acc, Head(s)))

\* pattern.search(ssid) for some pattern of SSID_PATTERNS: a word of the pattern stands
\* between two separators or ends of the str
SsidMatches(ssid) ==
    \E i \in DOMAIN SSID_PATTERNS : \E p \in Pieces(ssid, << >>) : Lower(p) \in SSID_PATTERNS[i]

s_wifi_drone_remote_id == "wifi_drone_remote_id"
s_wifi_drone_signature == "wifi_drone_signature"

\* lines 137-180 of _detect_wifi on the identifiers of the network and its Remote ID: no
\* detection without an identifier or under the threshold; the score, in thousandths, is
\* a sum of 0.45s raised to 0.75, which round(., 3) leaves as it is
WifiScored(bssid, ssid, remote_id, threshold) ==
    LET identifier == IF bssid # << >> THEN bssid ELSE ssid
        by_ssid == IF ssid # << >> /\ SsidMatches(ssid) THEN 450 ELSE 0
        by_oui == IF Len(bssid) >= 8 /\ SubSeq(bssid, 1, 8) \in DRONE_OUI_PREFIXES
                  THEN 450 ELSE 0
        score == IF remote_id.detected THEN Max(by_ssid + by_oui, 750) ELSE by_ssid + by_oui
    IN  IF identifier = << >> THEN << >>
        ELSE IF score < threshold THEN << >>
        ELSE << [source |-> "wifi",
                 identifier |-> identifier,
                 classification |-> IF remote_id.detected THEN s_wifi_drone_remote_id
                                    ELSE s_wifi_drone_signature,
                 confidence |-> Min(1000, score),
                 remote_id |-> IF remote_id.detected THEN Some(remote_id) ELSE None] >>

\* lines 135-180 of _detect_wifi on the network found
WifiNetwork(network, threshold) ==
    WifiScored(_normalize_mac(PyOr(PyOr(Get(network, k_bssid), Get(network, k_mac)),
                                   Get(network, k_id))),
               Strip(StrOrEmpty(PyOr(PyOr(Get(network, k_essid), Get(network, k_ssid)),
                                     Get(network, k_display_name)))),
               decode_remote_id_payload(network), threshold)

\* lines 131-133: no detection without a network
WifiFound(found, threshold) ==
    IF found = None \/ ~Truthy(found[1]) THEN << >> ELSE WifiNetwork(found[1], threshold)

\* _detect_wifi with a threshold of 0.45
_detect_wifi_LowThreshold(event) == WifiFound(_extract_wifi_event(event), 450)

\* _detect_wifi: the list of detections, empty or of one
_detect_wifi(event) == WifiFound(_extract_wifi_event(event), 500)

\* a float as whole part and hundredths: the values in Hz do not fit in hundredths
Real(w, c) == [w |-> w, c |-> c]

\* float(value) of a candidate, or None where float() raises
FloatOf(value) ==
    CASE value.k = "int" -> Some(Real(value.int, 0))
      [] value.k = "float" -> Some(Real(value.cent \div 100, value.cent % 100))
      [] value.k = "bool" -> Some(Real(IF value.bool THEN 1 ELSE 0, 0))
      [] value.k = "str" ->
             LET p == ParseDecimal(value.str)
             IN  IF p = None \/ p[1].k = "nan" THEN None
                 ELSE IF p[1].sign = 1 THEN Some(Real(p[1].w, p[1].c))
                 ELSE IF p[1].c = 0 THEN Some(Real(-p[1].w, 0))
                 ELSE Some(Real(-p[1].w - 1, 100 - p[1].c))
      [] OTHER -> None

\* f / 1_000_000.0, to the hundredth: the inputs in Hz are multiples of 10 kHz
PerMillion(r) == Real(r.w \div 1000000, (r.w % 1000000) \div 10000)

\* lines 86-92: the frequency a candidate gives, in hundredths of a MHz, or None
FromCandidate(r) ==
    LET f == IF r.w > 100000 \/ (r.w = 100000 /\ r.c > 0) THEN PerMillion(r) ELSE r
    IN  IF f.w >= 1 /\ (f.w < 7000 \/ (f.w = 7000 /\ f.c = 0))
        THEN Some(100 * f.w + f.c) ELSE None

s_mhz == <<"m","h","z">>

\* the match of ([0-9]{2,4}(?:\.[0-9]+)?)\s*MHz that starts at position i, if any: the
\* frequency of group 1 in hundredths (fractions are of at most two digits)
MatchMHzAt(s, i) ==
    LET n == DigitRun(s, i)
        m == IF i + n <= Len(s) /\ s[i + n] = "." THEN DigitRun(s, i + n + 1) ELSE 0
        after == IF m > 0 THEN i + n + 1 + m ELSE i + n
        unit == SkipWs(s, after)
    IN  IF n >= 2 /\ n <= 4 /\ unit + 2 <= Len(s) /\ Lower(SubSeq(s, unit, unit + 2)) = s_mhz
        THEN Some(100 * DigitsValue(SubSeq(s, i, i + n - 1))
                  + (IF m > 0 THEN FractionCent(SubSeq(s, i + n + 1, i + n + m)) ELSE 0))
        ELSE None

\* re.search: the leftmost match
SearchMHz(s) ==
    LET at == {i \in DOMAIN s : MatchMHzAt(s, i) # None}
    IN  IF at = {} THEN None ELSE MatchMHzAt(s, CHOOSE i \in at : \A j \in at : i <= j)

\* the first of the candidates that gives a frequency
RECURSIVE FirstCandidate(_)
FirstCandidate(candidates) ==
    IF candidates = << >> THEN None
    ELSE IF Head(candidates) # None /\ FromCandidate(Head(candidates)[1]) # None
         THEN FromCandidate(Head(candidates)[1])
         ELSE FirstCandidate(Tail(candidates))

\* _extract_frequency_mhz: in hundredths of a MHz, or None
_extract_frequency_mhz(event) ==
    LET hz == IF JGet(event, k_frequency_hz) = None
                 \/ FloatOf(Get(event, k_frequency_hz)) = None
              THEN << >>
              ELSE <<Some(PerMillion(FloatOf(Get(event, k_frequency_hz))[1]))>>
        candidates == <<FloatOf(Get(event, k_frequency_mhz)),
                        FloatOf(Get(event, k_frequency))>> \o hz
        text == StrOrEmpty(PyOr(Get(event, k_text), Get(event, k_message)))
    IN  IF event.k # "dict" THEN None
        ELSE IF FirstCandidate(candidates) # None THEN FirstCandidate(candidates)
        ELSE SearchMHz(text)

Abs(x) == IF x < 0 THEN -x ELSE x

\* _closest_freq_delta, in hundredths of a MHz
_closest_freq_delta(freq_mhz) ==
    LET deltas == {Abs(freq_mhz - RF_FREQ_HINTS_MHZ[i]) : i \in DOMAIN RF_FREQ_HINTS_MHZ}
    IN  CHOOSE d \in deltas : \A e \in deltas : d <= e

\* round(score, 3) of a score in ten-thousandths, in thousandths: the double nearest to
\* a score that ends in 5 lies on either side of it, and so does its rounding
Round3(score) ==
    IF score % 10 = 5 THEN {score \div 10, score \div 10 + 1}
    ELSE IF score % 10 < 5 THEN {score \div 10} ELSE {score \div 10 + 1}

\* f'{freq_mhz:.3f}MHz'
FreqStr(freq_mhz) ==
    IntToStr(freq_mhz \div 100) \o <<".">> \o IntToStr((freq_mhz % 100) \div 10)
        \o IntToStr(freq_mhz % 10) \o <<"0", "M", "H", "z">>

\* _detect_rf with a band of 40 MHz around each hint in place of 35
_detect_rf_WideBand(event) ==
    LET freq_mhz == _extract_frequency_mhz(event)
        delta == _closest_freq_delta(freq_mhz[1])
        score == Max(5000, 8500 - delta)
        event_id == StrOrEmpty(PyOr(Get(event, k_capture_id), Get(event, k_id)))
    IN  IF event.k # "dict" \/ freq_mhz = None THEN {<< >>}
        ELSE IF delta > 4000 THEN {<< >>}
        ELSE { << [source |-> "rf",
                   identifier |-> <<"r","f",":">> \o
                       (IF event_id = << >> THEN FreqStr(freq_mhz[1]) ELSE event_id),
                   classification |-> "rf_drone_link_activity",
                   confidence |-> Min(1000, confidence),
                   frequency_mhz |-> freq_mhz[1],
                   delta |-> delta] >> : confidence \in Round3(score) }

\* _detect_rf: the lists of detections it may return, one for each rounding of the score
_detect_rf(event) ==
    LET freq_mhz == _extract_frequency_mhz(event)
        delta == _closest_freq_delta(freq_mhz[1])
        score == Max(5000, 8500 - delta)
        event_id == StrOrEmpty(PyOr(Get(event, k_capture_id), Get(event, k_id)))
    IN  IF event.k # "dict" \/ freq_mhz = None THEN {<< >>}
        ELSE IF delta > 3500 THEN {<< >>}
        ELSE { << [source |-> "rf",
                   identifier |-> <<"r","f",":">> \o
                       (IF event_id = << >> THEN FreqStr(freq_mhz[1]) ELSE event_id),
                   classification |-> "rf_drone_link_activity",
                   confidence |-> Min(1000, confidence),
                   frequency_mhz |-> freq_mhz[1],
                   delta |-> delta] >> : confidence \in Round3(score) }

---------------------------------------------------------------------------
(* The decoder and the detectors as pure functions of their argument *)

\* the dict with value v at the path of keys
RECURSIVE PutAt(_, _, _)
PutAt(d, path, v) ==
    IF Len(path) = 1 THEN JWith(d, path[1], v)
    ELSE LET sub == IF Get(d, path[1]).k = "dict" THEN Get(d, path[1]) ELSE JDict(<< >>)
         IN  JWith(d, path[1], PutAt(sub, Tail(path), v))

\* the dict with each <<path, value>> of the entries put, in order
RECURSIVE PutAll(_, _)
PutAll(d, entries) ==
    IF entries = << >> THEN d
    ELSE PutAll(PutAt(d, Head(entries)[1], Head(entries)[2]), Tail(entries))

\* the drone id of a payload: none, at the top level, empty, blank, or nested; it is
\* present when the first key found holds a value that Python takes as true
UasEntries ==
    { [entries |-> <<>>, present |-> FALSE],
      [entries |-> <<<<<<k_uas_id>>, JStr(<<"U","A","S","-","0","0","1">>)>>>>, present |-> TRUE],
      [entries |-> <<<<<<k_id>>, JInt(7)>>>>, present |-> TRUE],
      [entries |-> <<<<<<k_uas_id>>, JStr(<<>>)>>>>, present |-> FALSE],
      [entries |-> <<<<<<k_serial>>, JStr(<<" "," ">>)>>>>, present |-> TRUE],
      [entries |-> <<<<<<k_remote_id, k_uas_id>>, JStr(<<"U","A","S","-","0","0","1">>)>>>>, present |-> TRUE],
      [entries |-> <<<<<<k_remote_id, k_uas_id>>, JStr(<<>>)>>>>, present |-> FALSE],
      [entries |-> <<<<<<k_uas, k_serial>>, JStr(<<"S","1">>)>>>>, present |-> TRUE],
      [entries |-> <<<<<<k_message, k_drone_id>>, JStr(<<"D","2">>)>>>>, present |-> TRUE] }

\* the operator id of a payload; 'operator' is a key of the operator id as well as a
\* prefix, so a dict under it is the value of that key
OperatorEntries ==
    { [entries |-> <<>>, present |-> FALSE],
      [entries |-> <<<<<<k_operator_id>>, JStr(<<"O","P","-","0","0","7">>)>>>>, present |-> TRUE],
      [entries |-> <<<<<<k_operator_id>>, JStr(<<>>)>>>>, present |-> FALSE],
      [entries |-> <<<<<<k_remote_id, k_operator_id>>, JStr(<<"O","P","-","0","0","7">>)>>>>, present |-> TRUE],
      [entries |-> <<<<<<k_message, k_pilot_id>>, JStr(<<"P","1">>)>>>>, present |-> TRUE],
      [entries |-> <<<<<<k_operator, k_operator_id>>, JStr(<<"O","P">>)>>>>, present |-> TRUE] }

\* the position of a payload: present when a latitude and a longitude are found, each a
\* number or the text of one; a key at the top level is found before a nested one
PositionEntries ==
    { [entries |-> <<>>, present |-> FALSE],
      [entries |-> <<<<<<k_lat>>, JFloat(3777)>>, <<<<k_lon>>, JFloat(-12241)>>>>, present |-> TRUE],
      [entries |-> <<<<<<k_lat>>, JFloat(3777)>>>>, present |-> FALSE],
      [entries |-> <<<<<<k_position, k_latitude>>, JStr(<<"3","5",".","0">>)>>, <<<<k_position, k_lng>>, JStr(<<"-","1","1","5",".","0">>)>>>>, present |-> TRUE],
      [entries |-> <<<<<<k_lat>>, JStr(<<"a","b","c">>)>>, <<<<k_lon>>, JInt(1)>>>>, present |-> FALSE],
      [entries |-> <<<<<<k_lat>>, JNull>>, <<<<k_position, k_lat>>, JFloat(100)>>, <<<<k_lon>>, JInt(2)>>>>, present |-> FALSE],
      [entries |-> <<<<<<k_position, k_lat>>, JFloat(100)>>, <<<<k_lon>>, JInt(2)>>>>, present |-> TRUE],
      [entries |-> <<<<<<k_remote_id, k_lat>>, JFloat(3777)>>, <<<<k_remote_id, k_lon>>, JFloat(-12241)>>>>, present |-> TRUE] }

\* the altitude of a payload
AltitudeEntries ==
    { [entries |-> <<>>, present |-> FALSE],
      [entries |-> <<<<<<k_altitude>>, JInt(80)>>>>, present |-> TRUE],
      [entries |-> <<<<<<k_altitude>>, JStr(<<>>)>>>>, present |-> FALSE],
      [entries |-> <<<<<<k_remote_id, k_altitude_m>>, JFloat(12150)>>>>, present |-> TRUE] }

\* texts that are JSON objects, other texts, and texts of white space
JsonTexts ==
    { <<"{","\"","u","a","s","_","i","d","\"",":","\"","R","I","D","-","A","B","C","\"",",","\"","l","a","t","\"",":","3","5",".","0",",","\"","l","o","n","\"",":","-","1","1","5",".","0",",","\"","a","l","t","i","t","u","d","e","\"",":","8","0","}">>,
      <<" "," ","{","\"","u","a","s","_","i","d","\"",":"," ","\"","R","I","D","-","A","B","C","\"",","," ","\"","o","p","e","r","a","t","o","r","\"",":"," ","\"","O","P","\"","}","\n">>,
      <<"{","\"","r","e","m","o","t","e","_","i","d","\"",":"," ","{","\"","u","a","s","_","i","d","\"",":"," ","\"","U","1","\"",","," ","\"","l","a","t","\"",":"," ","1",".","5",","," ","\"","l","o","n","\"",":"," ","-","2","}",","," ","\"","s","e","e","n","\"",":"," ","[","1",","," ","t","r","u","e",","," ","n","u","l","l","]","}">>,
      <<"{","}">>,
      <<"{","\"","u","a","s","_","i","d","\"",":","\"","a","\\","\"","b","\"",",","\"","u","a","s","_","i","d","\"",":","\"","s","e","c","o","n","d","\"","}">>,
      <<"{","\"","l","a","t","\"",":","N","a","N",",","\"","l","o","n","\"",":","2","}">> }
RawTexts ==
    { <<"n","o","t","-","a","-","r","e","m","o","t","e","-","i","d","-","p","a","y","l","o","a","d">>,
      <<"[","1","]">>,
      <<"\"","a","b","c","\"">>,
      <<"1","2">>,
      <<"n","u","l","l">>,
      <<"{","\"","u","a","s","_","i","d","\"",":"," ","\"","X","\"">>,
      <<"{","'","u","a","s","_","i","d","'",":"," ","'","X","'","}">>,
      <<"{","\"","a","\"",":","}">>,
      <<"{","\"","u","a","s","_","i","d","\"",":","\"","X","\"","}"," ","t","r","a","i","l","i","n","g">>,
      <<"{","\"","u","a","s","_","i","d","\"",":","\"","X","\"",",","}">>,
      <<"0","1">>,
      <<"{","\"","u","a","s","_","i","d","\"",":"," ","X","}">>,
      <<" ","u","a","s","_","i","d","=","U","A","S","-","0","0","1"," ","l","a","t","=","1"," ","l","o","n","=","2"," ">> }
EmptyTexts ==
    { <<>>,
      <<" "," "," ">>,
      <<"\t","\n">> }

\* str.encode('utf-8') of a text of ASCII characters, tabs and line ends
EncodeText(s) ==
    [i \in DOMAIN s |->
        CASE s[i] = "\t" -> 9 [] s[i] = "\n" -> 10 [] s[i] = "\r" -> 13
          [] OTHER -> CodePoint(s[i])]

\* a payload with what it is made of: the format its construction gives it and, for a
\* str or bytes, the text
Labelled(payload, label, text) == [payload |-> payload, label |-> label, text |-> text]

\* a dict payload with the fields its construction makes present
LabelledDict(payload, present) ==
    [payload |-> payload, label |-> "dict", text |-> << >>, present |-> present]

TextLabels ==
    {<<t, "json">> : t \in JsonTexts} \cup {<<t, "raw">> : t \in RawTexts}
        \cup {<<t, "empty">> : t \in EmptyTexts}

\* dict payloads with ids and numbers only, as json.dumps writes them
DumpedDicts ==
    {PutAll(JDict(<< >>), u.entries \o o.entries) : u \in UasEntries, o \in OperatorEntries}

\* a text of n digits
Digits(n) == [i \in 1..n |-> "1"]

DecodeInputs ==
    {LabelledDict(PutAll(JDict(<< >>), u.entries \o o.entries \o p.entries \o a.entries),
                  [uas_id |-> u.present, operator_id |-> o.present,
                   position |-> p.present, altitude |-> a.present]) :
        u \in UasEntries, o \in OperatorEntries, p \in PositionEntries, a \in AltitudeEntries}
    \cup {Labelled(JStr(x[1]), x[2], x[1]) : x \in TextLabels}
    \cup {Labelled(JBytes(EncodeText(x[1])), x[2], x[1]) : x \in TextLabels}
    \cup {Labelled(JBytes(<<255>> \o EncodeText(t)), "raw", <<"U+FFFD">> \o t) :
              t \in JsonTexts}
    \cup {Labelled(JStr(json_dumps(d, s)), "json", json_dumps(d, s)) :
              d \in DumpedDicts, s \in BOOLEAN}
    \cup {Labelled(JNull, "empty", << >>), Labelled(JInt(0), "empty", << >>),
          Labelled(JInt(12), "raw", <<"1", "2">>)}
    \cup {Labelled(JStr(Digits(INT_MAX_STR_DIGITS + 1)), "raw", Digits(INT_MAX_STR_DIGITS + 1))}

\* decode_remote_id_payload on one payload; a behaviour evaluates one function once
EvalDecode ==
    \E input \in DecodeInputs :
        /\ probe = NoProbe
        /\ probe' = [fn |-> "decode_remote_id_payload", arg |-> input,
                     out |-> decode_remote_id_payload(input.payload)]
        /\ UNCHANGED <<action_requests, action_audit_log, policy, now, emitted, frames,
                       exec_log, calls, last_arm, ops_vars>>

\* the BSSID of a network: whether its OUI is in the table and whether it is a MAC of
\* at least 8 characters
BssidChoices ==
    { [entries |-> << >>, oui_known |-> FALSE, valid |-> FALSE],
      [entries |-> <<<<<<k_bssid>>, JStr(<<"6","0",":","6","0",":","1","F",":","A","A",":","B","B",":","C","C">>)>>>>, oui_known |-> TRUE, valid |-> TRUE],
      [entries |-> <<<<<<k_mac>>, JStr(<<"6","0",":","6","0",":","1","F",":","A","A",":","B","B",":","C","C">>)>>>>, oui_known |-> TRUE, valid |-> TRUE],
      [entries |-> <<<<<<k_bssid>>, JStr(<<"6","0","-","6","0","-","1","f","-","a","a","-","b","b","-","c","c">>)>>>>, oui_known |-> TRUE, valid |-> TRUE],
      [entries |-> <<<<<<k_mac>>, JStr(<<"6","0","-","6","0","-","1","f","-","a","a","-","b","b","-","c","c">>)>>>>, oui_known |-> TRUE, valid |-> TRUE],
      [entries |-> <<<<<<k_bssid>>, JStr(<<"0","0",":","1","1",":","2","2",":","3","3",":","4","4",":","5","5">>)>>>>, oui_known |-> FALSE, valid |-> TRUE],
      [entries |-> <<<<<<k_mac>>, JStr(<<"0","0",":","1","1",":","2","2",":","3","3",":","4","4",":","5","5">>)>>>>, oui_known |-> FALSE, valid |-> TRUE],
      [entries |-> <<<<<<k_bssid>>, JStr(<<" ","9","0",":","0","3",":","B","7"," ">>)>>>>, oui_known |-> TRUE, valid |-> TRUE],
      [entries |-> <<<<<<k_mac>>, JStr(<<" ","9","0",":","0","3",":","B","7"," ">>)>>>>, oui_known |-> TRUE, valid |-> TRUE],
      [entries |-> <<<<<<k_bssid>>, JStr(<<"6","0",":","6","0">>)>>>>, oui_known |-> FALSE, valid |-> FALSE],
      [entries |-> <<<<<<k_mac>>, JStr(<<"6","0",":","6","0">>)>>>>, oui_known |-> FALSE, valid |-> FALSE] }

\* the SSID of a network: whether a pattern matches it and whether it is not empty
SsidChoices ==
    { [entries |-> << >>, ssid_match |-> FALSE, named |-> FALSE],
      [entries |-> <<<<<<k_ssid>>, JStr(<<"D","J","I","-","O","P","S","-","T","E","S","T">>)>>>>, ssid_match |-> TRUE, named |-> TRUE],
      [entries |-> <<<<<<k_ssid>>, JStr(<<"m","y"," ","d","j","i">>)>>>>, ssid_match |-> TRUE, named |-> TRUE],
      [entries |-> <<<<<<k_ssid>>, JStr(<<" ","M","a","v","i","c","_","2"," ">>)>>>>, ssid_match |-> TRUE, named |-> TRUE],
      [entries |-> <<<<<<k_ssid>>, JStr(<<"x","-","O","p","e","n","D","r","o","n","e","I","D">>)>>>>, ssid_match |-> TRUE, named |-> TRUE],
      [entries |-> <<<<<<k_ssid>>, JStr(<<"d","j","i","n","n">>)>>>>, ssid_match |-> FALSE, named |-> TRUE],
      [entries |-> <<<<<<k_ssid>>, JStr(<<"M","i","n","i","C","o","o","p","e","r">>)>>>>, ssid_match |-> FALSE, named |-> TRUE],
      [entries |-> <<<<<<k_ssid>>, JStr(<<"d","r","o","n","e","s">>)>>>>, ssid_match |-> FALSE, named |-> TRUE],
      [entries |-> <<<<<<k_ssid>>, JStr(<<>>)>>>>, ssid_match |-> FALSE, named |-> FALSE],
      [entries |-> <<<<<<k_essid>>, JStr(<<"P","a","r","r","o","t"," ","A","n","a","f","i">>)>>>>, ssid_match |-> TRUE, named |-> TRUE] }

\* the Remote ID fields of a network: whether they make a Remote ID
RemoteIdChoices ==
    { [entries |-> << >>, remote_id |-> FALSE],
      [entries |-> <<<<<<k_uas_id>>, JStr(<<"U","A","S","-","0","0","1">>)>>>>, remote_id |-> TRUE],
      [entries |-> <<<<<<k_lat>>, JFloat(3777)>>, <<<<k_lon>>, JFloat(-12241)>>>>, remote_id |-> TRUE],
      [entries |-> <<<<<<k_lat>>, JFloat(3777)>>>>, remote_id |-> FALSE],
      [entries |-> <<<<<<k_id>>, JInt(7)>>>>, remote_id |-> TRUE] }


\* a WiFi event with what it is made of; the network is the event, when it has one of
\* the keys bssid, essid, ssid, or is the dict under 'network', and counts when not empty
WifiInputs ==
    {[event |-> IF wrapped THEN JDict(<<<<k_network, PutAll(JDict(<< >>), b.entries \o s.entries \o r.entries)>>>>)
                ELSE PutAll(JDict(<< >>), b.entries \o s.entries \o r.entries),
      network |-> IF wrapped THEN b.entries \o s.entries \o r.entries # << >>
                  ELSE s.entries # << >> \/ (b.entries # << >> /\ b.entries[1][1] = <<k_bssid>>),
      oui_known |-> b.oui_known, identified |-> b.valid \/ s.named,
      ssid_match |-> s.ssid_match, remote_id |-> r.remote_id] :
        b \in BssidChoices, s \in SsidChoices, r \in RemoteIdChoices, wrapped \in BOOLEAN}

\* _detect_wifi on one event
EvalDetectWifi ==
    \E input \in WifiInputs :
        /\ probe = NoProbe
        /\ probe' = [fn |-> "_detect_wifi", arg |-> input, out |-> _detect_wifi(input.event)]
        /\ UNCHANGED <<action_requests, action_audit_log, policy, now, emitted, frames,
                       exec_log, calls, last_arm, ops_vars>>

\* the distances from a band tried, in hundredths of a MHz
BandOffsets == {-3600, -3501, -3500, -3499, -1005, -1000, -50, -5, 0, 5, 50, 1000, 1005,
                3499, 3500, 3501, 3600}

\* an RF event with the frequency it carries, in hundredths of a MHz, or None
RfInput(event, freq) == [event |-> event, freq |-> freq]

RfInputs ==
    {RfInput(PutAll(JDict(<< >>), <<<<<<k_frequency_mhz>>, JFloat(RF_FREQ_HINTS_MHZ[i] + d)>>>>),
             Some(RF_FREQ_HINTS_MHZ[i] + d)) : i \in DOMAIN RF_FREQ_HINTS_MHZ, d \in BandOffsets}
    \cup { RfInput(PutAll(JDict(<< >>), <<<<<<k_frequency>>, JFloat(86850)>>>>), Some(86850)),
           RfInput(PutAll(JDict(<< >>), <<<<<<k_frequency_mhz>>, JFloat(50)>>, <<<<k_frequency>>, JInt(915)>>>>), Some(91500)),
           RfInput(PutAll(JDict(<< >>), <<<<<<k_frequency_mhz>>, JStr(<<"8","6","8",".","5">>)>>>>), Some(86850)),
           RfInput(PutAll(JDict(<< >>), <<<<<<k_frequency_mhz>>, JStr(<<" ","2","4","0","0"," ">>)>>>>), Some(240000)),
           RfInput(PutAll(JDict(<< >>), <<<<<<k_frequency_mhz>>, JStr(<<"f","a","s","t">>)>>>>), None),
           RfInput(PutAll(JDict(<< >>), <<<<<<k_frequency_mhz>>, JNull>>>>), None),
           RfInput(PutAll(JDict(<< >>), <<<<<<k_frequency_mhz>>, JBool(TRUE)>>>>), Some(100)),
           RfInput(PutAll(JDict(<< >>), <<<<<<k_frequency_mhz>>, JFloat(50)>>>>), None),
           RfInput(PutAll(JDict(<< >>), <<<<<<k_frequency_mhz>>, JFloat(100)>>>>), Some(100)),
           RfInput(PutAll(JDict(<< >>), <<<<<<k_frequency_mhz>>, JInt(7000)>>>>), Some(700000)),
           RfInput(PutAll(JDict(<< >>), <<<<<<k_frequency_mhz>>, JFloat(700001)>>>>), None),
           RfInput(PutAll(JDict(<< >>), <<<<<<k_frequency_mhz>>, JInt(915000000)>>>>), Some(91500)),
           RfInput(PutAll(JDict(<< >>), <<<<<<k_frequency_mhz>>, JInt(100000)>>>>), None),
           RfInput(PutAll(JDict(<< >>), <<<<<<k_frequency_hz>>, JInt(868500000)>>>>), Some(86850)),
           RfInput(PutAll(JDict(<< >>), <<<<<<k_frequency_hz>>, JInt(433920000)>>, <<<<k_capture_id>>, JStr(<<"c","a","p","-","1">>)>>>>), Some(43392)),
           RfInput(PutAll(JDict(<< >>), <<<<<<k_frequency_hz>>, JStr(<<"3","1","5","0","0","0","0","0","0">>)>>>>), Some(31500)),
           RfInput(PutAll(JDict(<< >>), <<<<<<k_frequency_hz>>, JStr(<<"n","/","a">>)>>, <<<<k_text>>, JStr(<<"c","a","r","r","i","e","r"," ","4","3","3",".","9","2","M","H","z">>)>>>>), Some(43392)),
           RfInput(PutAll(JDict(<< >>), <<<<<<k_text>>, JStr(<<"s","i","g","n","a","l"," ","a","t"," ","8","6","8",".","5"," ","M","H","z">>)>>>>), Some(86850)),
           RfInput(PutAll(JDict(<< >>), <<<<<<k_text>>, JStr(<<"x"," ","1","2","4","0","0"," ","m","h","z">>)>>>>), Some(240000)),
           RfInput(PutAll(JDict(<< >>), <<<<<<k_text>>, JStr(<<"9","9","9","9","M","H","z">>)>>>>), Some(999900)),
           RfInput(PutAll(JDict(<< >>), <<<<<<k_text>>, JStr(<<"5"," ","M","H","z"," ","t","h","e","n"," ","9","1","5"," ","M","H","z">>)>>>>), Some(91500)),
           RfInput(PutAll(JDict(<< >>), <<<<<<k_message>>, JStr(<<"a","t"," ","5","8","0","0",".","5"," ","M","H","z">>)>>>>), Some(580050)),
           RfInput(PutAll(JDict(<< >>), <<<<<<k_text>>, JStr(<<"8","6","8",".","5"," ","k","H","z">>)>>>>), None),
           RfInput(PutAll(JDict(<< >>), <<<<<<k_text>>, JStr(<<>>)>>, <<<<k_id>>, JInt(3)>>>>), None),
           RfInput(JDict(<< >>), None),
           RfInput(JStr(<<"8","6","8",".","5"," ","M","H","z">>), None),
           RfInput(JNull, None) }


\* _detect_rf on one event
EvalDetectRf ==
    \E input \in RfInputs : \E detections \in _detect_rf(input.event) :
        /\ probe = NoProbe
        /\ probe' = [fn |-> "_detect_rf", arg |-> input, out |-> detections]
        /\ UNCHANGED <<action_requests, action_audit_log, policy, now, emitted, frames,
                       exec_log, calls, last_arm, ops_vars>>

NextDetect ==
    \/ EvalDecode
    \/ EvalDetectWifi
    \/ EvalDetectRf

SpecDetect == Init /\ [][NextDetect]_vars


\* ---- C32: what the WiFi detector emits ----

\* the result of _detect_wifi is held by the probe
WifiProbed == probe.fn = "_detect_wifi"

\* the score of the claim, in thousandths, from what the event was built of
C32_Score ==
    LET sum == (IF probe.arg.ssid_match THEN 450 ELSE 0) + (IF probe.arg.oui_known THEN 450 ELSE 0)
    IN  IF probe.arg.remote_id THEN Max(sum, 750) ELSE sum

\* the detector reaches its scoring: the event has a non-empty network with a BSSID of
\* eight characters or more, or a non-empty SSID
C32_Scored == probe.arg.network /\ probe.arg.identified

C32_RemoteIdAlone ==
    /\ WifiProbed
    /\ C32_Scored /\ ~probe.arg.ssid_match /\ ~probe.arg.oui_known /\ probe.arg.remote_id
    /\ Len(probe.out) = 1
    /\ probe.out[1].confidence = 750
    /\ probe.out[1].classification = s_wifi_drone_remote_id

\* a Remote ID on a network without BSSID and SSID gave nothing
C32_UnscoredRemoteId ==
    /\ WifiProbed
    /\ ~C32_Scored /\ probe.arg.remote_id
    /\ probe.out = << >>


\* ---- C33: what the RF detector emits ----

\* the result of _detect_rf is held by the probe
RfProbed == probe.fn = "_detect_rf"

\* the distance, in hundredths of a MHz, of f to the nearest of 315, 433.92, 868, 915, 1200,
\* 2400 and 5800 MHz
C33_Distance(f) ==
    LET bands == {31500, 43392, 86800, 91500, 120000, 240000, 580000}
    IN  CHOOSE d \in {Abs(f - b) : b \in bands} : \A b \in bands : d <= Abs(f - b)

\* a frequency between 1 and 7000 MHz at most 35 MHz from a band is carried by the event
C33_InBand ==
    /\ probe.arg.freq # None
    /\ probe.arg.freq[1] >= 100 /\ probe.arg.freq[1] <= 700000
    /\ C33_Distance(probe.arg.freq[1]) <= 3500

\* min(1.0, max(0.5, 0.85 - d/100)) in ten-thousandths, d in hundredths of a MHz
C33_Score(d) == Min(10000, Max(5000, 8500 - d))

\* C33: the RF detector emits a detection if and only if a frequency f with
\* 1 <= f <= 7000 MHz is extracted and its distance d to the nearest of the seven bands is
\* at most 35 MHz; the confidence is then min(1.0, max(0.5, 0.85 - d/100)) rounded to three
\* decimals (to either neighbour when the score lies half way), it lies in [0.5, 0.85], and
\* is 0.845 for 868.5 MHz
C33_RfBand ==
    RfProbed =>
        /\ probe.out # << >> <=> C33_InBand
        /\ Len(probe.out) <= 1
        /\ probe.out # << >> =>
              LET score == C33_Score(C33_Distance(probe.arg.freq[1]))
                  confidence == probe.out[1].confidence
              IN  /\ 10 * confidence - score <= 5 /\ score - 10 * confidence <= 5
                  /\ score % 10 # 5 => (10 * confidence - score < 5 /\ score - 10 * confidence < 5)
                  /\ confidence >= 500 /\ confidence <= 850
        /\ (probe.arg.freq = Some(86850) /\ probe.out # << >>)
              => probe.out[1].confidence = 845

\* 868.5 MHz gave a detection of confidence 0.845
C33_At868_5 ==
    /\ RfProbed
    /\ probe.arg.freq = Some(86850)
    /\ Len(probe.out) = 1
    /\ probe.out[1].confidence = 845

\* a frequency exactly 35 MHz from a band gave a detection of confidence 0.5
C33_AtEdge ==
    /\ RfProbed
    /\ probe.arg.freq # None /\ C33_Distance(probe.arg.freq[1]) = 3500
    /\ Len(probe.out) = 1
    /\ probe.out[1].confidence = 500

\* a frequency named in a text outside 1 to 7000 MHz was extracted and gave nothing
C33_TextOutOfRange ==
    /\ RfProbed
    /\ probe.arg.freq # None /\ probe.arg.freq[1] > 700000
    /\ probe.out = << >>


\* ---- C34: the confidence and the verdict of the Remote ID decoder ----

\* the dict returned by decode_remote_id_payload is held by the probe
DecodeProbed == probe.fn = "decode_remote_id_payload" /\ "raised" \notin DOMAIN probe.out

\* 0.35, 0.35, 0.15 and 0.15 for the fields present, capped at 1.0, in thousandths
C34_Weights(uas_id, position, altitude, operator_id) ==
    Min(1000, (IF uas_id THEN 350 ELSE 0) + (IF position THEN 350 ELSE 0)
              + (IF altitude THEN 150 ELSE 0) + (IF operator_id THEN 150 ELSE 0))

\* the payload is a dict built of fields known to be present or not
C34_Built == DecodeProbed /\ "present" \in DOMAIN probe.arg

\* C34: for every payload, the confidence returned by decode_remote_id_payload is
\* 0.35 [uas_id present] + 0.35 [lat and lon both present] + 0.15 [altitude present]
\* + 0.15 [operator_id present], capped at 1.0, and detected is true if and only if uas_id
\* is present or both lat and lon are; this holds of the fields returned, for every
\* payload, and of the fields a dict payload was built with, where a field put under a
\* nested prefix counts exactly as one put at the top level
C34_ConfidenceWeights ==
    DecodeProbed =>
        /\ probe.out.confidence =
               C34_Weights(probe.out.uas_id # None,
                           probe.out.lat # None /\ probe.out.lon # None,
                           probe.out.altitude_m # None,
                           probe.out.operator_id # None)
        /\ probe.out.detected <=>
               (probe.out.uas_id # None \/ (probe.out.lat # None /\ probe.out.lon # None))
        /\ C34_Built =>
              /\ probe.out.confidence =
                     C34_Weights(probe.arg.present.uas_id, probe.arg.present.position,
                                 probe.arg.present.altitude, probe.arg.present.operator_id)
              /\ probe.out.detected <=>
                     (probe.arg.present.uas_id \/ probe.arg.present.position)
              /\ probe.out.uas_id # None <=> probe.arg.present.uas_id
              /\ probe.out.operator_id # None <=> probe.arg.present.operator_id
              /\ (probe.out.lat # None /\ probe.out.lon # None) <=> probe.arg.present.position
              /\ probe.out.altitude_m # None <=> probe.arg.present.altitude

\* a payload with every field under remote_id.* was decoded with confidence 1.0
C34_AllNested ==
    /\ C34_Built
    /\ Len(probe.arg.payload.pairs) = 1
    /\ probe.arg.payload.pairs[1][1] = k_remote_id
    /\ probe.arg.present = [uas_id |-> TRUE, operator_id |-> TRUE, position |-> TRUE,
                            altitude |-> TRUE]
    /\ probe.out.confidence = 1000
    /\ probe.out.detected

\* a position alone gave confidence 0.35 and was detected; an altitude and an operator
\* alone gave 0.3 and were not
C34_PositionAlone ==
    /\ C34_Built
    /\ probe.arg.present = [uas_id |-> FALSE, operator_id |-> FALSE, position |-> TRUE,
                            altitude |-> FALSE]
    /\ probe.out.confidence = 350
    /\ probe.out.detected

C34_AltitudeAndOperator ==
    /\ C34_Built
    /\ probe.arg.present = [uas_id |-> FALSE, operator_id |-> TRUE, position |-> FALSE,
                            altitude |-> TRUE]
    /\ probe.out.confidence = 300
    /\ ~probe.out.detected


\* ---- C35: the source format of a payload ----

\* decode_remote_id_payload was applied, whether it returned or raised
DecodeApplied == probe.fn = "decode_remote_id_payload"

\* the source format, the data and the verdict agree with what the payload was built as
C35_AsBuilt ==
    /\ probe.out.source_format = probe.arg.label
    /\ probe.arg.label \in {"raw", "empty"} =>
          /\ ~probe.out.detected
          /\ probe.out.uas_id = None
          /\ probe.out.operator_id = None
    /\ probe.arg.label = "raw" => probe.out.raw = JDict(<<<<k_raw, JStr(Strip(probe.arg.text))>>>>)
    /\ probe.arg.label = "empty" => probe.out.raw = JDict(<< >>)
    /\ probe.arg.label = "dict" => probe.out.raw = probe.arg.payload

\* C35: decode_remote_id_payload classifies every input by the rules in order: a mapping
\* gives 'dict'; otherwise the text (bytes decoded as UTF-8 with replacement, trimmed) gives
\* 'empty' when empty, 'json' when it parses as JSON to a mapping, and 'raw' with data
\* {raw: text} in every other case; a raw or empty payload is not detected and has
\* uas_id and operator_id null
C35_Classification ==
    DecodeApplied => ("raised" \notin DOMAIN probe.out /\ C35_AsBuilt)

\* every payload on which the decoder returns is classified by the rules
C35_ClassifiedWhenReturned == DecodeProbed => C35_AsBuilt

\* a text that parses as JSON to a list was classified as raw
C35_JsonListIsRaw ==
    /\ DecodeProbed
    /\ probe.arg.text = <<"[", "1", "]">>
    /\ probe.out.source_format = "raw"
    /\ ~probe.out.detected

\* a text of more digits than int() takes left the decoder with an error
C35_DigitsRaise ==
    /\ DecodeApplied
    /\ probe.arg.label = "raw"
    /\ "raised" \in DOMAIN probe.out


\* ---- C36: the policy at the instant a request becomes executed ----

\* C36: the policy is armed at the instant any request's status is written to executed:
\* no request becomes executed after a disarm_actions call has returned, or after the
\* arming window has ended, and before the next arm_actions
C36_ArmedWhenExecuted ==
    [][\A t \in Callers :
          Steps(t, "execute_action", "update") => IsArmed(policy, now)]_vars


\* ---- C37: the workflow rows and the audit log, as a reader sees them ----

\* C37: in every state a concurrent reader can see, a request whose status is executed
\* has an 'executed' audit entry, and every approval in a request's approvals list has an
\* 'approval' audit entry by the same approver
C37_AuditMatchesState ==
    \A id \in Requests :
        /\ action_requests[id].status = "executed" => AuditOf(id, "executed") # << >>
        /\ \A i \in DOMAIN action_requests[id].approvals :
              \E k \in DOMAIN action_audit_log :
                  /\ action_audit_log[k].request_id = id
                  /\ action_audit_log[k].event_type = "approval"
                  /\ action_audit_log[k].actor = action_requests[id].approvals[i].approved_by


---------------------------------------------------------------------------
(* The manifest builder beside the workflow: two threads, one incident with one     *)
(* pending request of a passive action                                               *)

SnapshotCallers == {"g1", "g2"}

InitSnapshot ==
    /\ action_requests = create_action_request(<< >>, 1, s_passive_spectrum_capture, s_op1)
    /\ action_audit_log = add_action_audit_log(<< >>, 1, "requested", s_op1)
    /\ policy = Disarmed
    /\ now = 0
    /\ emitted = << >>
    /\ frames = [t \in SnapshotCallers |-> IdleFrame]
    /\ exec_log = << >>
    /\ calls = 0
    /\ last_arm = None
    /\ probe = NoProbe
    /\ drone_sessions = << >>
    /\ drone_detections = << >>
    /\ drone_tracks = << >>
    /\ drone_correlations = << >>
    /\ upsert_log = << >>
    /\ subscribers = {}
    /\ client_queues = << >>
    /\ streams = << >>
    /\ received = << >>
    /\ emit_overlap = {}
    /\ drone_incidents = create_drone_incident(<< >>, s_title_plain, s_high, 0)
    /\ evidence_manifests = << >>
    /\ manifest_log = << >>
    /\ http = << >>

NextSnapshot ==
    \/ \E t \in Callers : approve_action(t)
    \/ \E t \in Callers : approve_action_add_approval(t)
    \/ \E t \in Callers : approve_action_audit(t)
    \/ \E t \in Callers : approve_action_reread(t)
    \/ \E t \in Callers : approve_action_update(t)
    \/ \E t \in Callers : approve_action_read(t)
    \/ \E t \in Callers : approve_action_emit(t)
    \/ \E t \in Callers : add_incident_artifact(t)
    \/ \E t \in Callers : generate_evidence_manifest(t)
    \/ \E t \in Callers : generate_evidence_manifest_requests(t)
    \/ \E t \in Callers : generate_evidence_manifest_audit(t)
    \/ \E t \in Callers : generate_evidence_manifest_create(t)
    \/ \E t \in Callers : generate_evidence_manifest_read(t)

SpecSnapshot == InitSnapshot /\ [][NextSnapshot]_vars

\* ---- C38: a manifest as a snapshot of the store ----

\* the items of the list under a key of a manifest
ItemsOf(manifest, key) == Get(manifest, key).items

\* the three counts of a manifest are the lengths of its lists
C38_CountsMatch(m) ==
    /\ Get(m, k_artifact_count) = JInt(Len(ItemsOf(m, k_artifacts)))
    /\ Get(m, k_action_request_count) = JInt(Len(ItemsOf(m, k_action_requests)))
    /\ Get(m, k_audit_event_count) = JInt(Len(ItemsOf(m, k_action_audit)))

\* every approval and every executed status in the requests of a manifest has its entry
\* in the audit list of the manifest
C38_ShownIsAudited(m) ==
    \A i \in DOMAIN ItemsOf(m, k_action_requests) :
        LET request == ItemsOf(m, k_action_requests)[i]
            entries == ItemsOf(m, k_action_audit)
        IN  /\ \A j \in DOMAIN ItemsOf(request, k_approvals) :
                  \E e \in DOMAIN entries :
                      /\ Get(entries[e], k_request_id) = Get(request, k_id)
                      /\ Get(entries[e], k_event_type) = JStr(s_approval)
                      /\ Get(entries[e], k_actor)
                             = Get(ItemsOf(request, k_approvals)[j], k_approved_by)
            /\ Get(request, k_status) = JStr(s_executed) =>
                  \E e \in DOMAIN entries :
                      /\ Get(entries[e], k_request_id) = Get(request, k_id)
                      /\ Get(entries[e], k_event_type) = JStr(s_executed)

\* every 'approval' entry in the audit list of a manifest is the entry of an approval in
\* its requests: the store writes the approval before its entry, so this holds of every
\* state of the store
C38_AuditedIsShown(m) ==
    \A e \in DOMAIN ItemsOf(m, k_action_audit) :
        LET entry == ItemsOf(m, k_action_audit)[e]
        IN  Get(entry, k_event_type) = JStr(s_approval) =>
                \E i \in DOMAIN ItemsOf(m, k_action_requests) :
                    LET request == ItemsOf(m, k_action_requests)[i]
                    IN  /\ Get(request, k_id) = Get(entry, k_request_id)
                        /\ \E j \in DOMAIN ItemsOf(request, k_approvals) :
                               Get(ItemsOf(request, k_approvals)[j], k_approved_by)
                                   = Get(entry, k_actor)

\* C38: every evidence manifest is a snapshot of the store at one instant: its counts are
\* the lengths of its lists, every approval or executed status shown in its requests has
\* its audit entry in its audit list, and its requests and audit list are those of one
\* state of the store, also when approve_action or add_incident_artifact run beside the
\* build
C38_ManifestIsSnapshot ==
    \A k \in DOMAIN evidence_manifests :
        /\ C38_CountsMatch(evidence_manifests[k].manifest)
        /\ C38_ShownIsAudited(evidence_manifests[k].manifest)
        /\ C38_AuditedIsShown(evidence_manifests[k].manifest)

\* the counts alone
C38_Counts == \A k \in DOMAIN evidence_manifests : C38_CountsMatch(evidence_manifests[k].manifest)
\* a manifest that shows an approval without its audit entry
C38_ApprovalUnaudited ==
    \E k \in DOMAIN evidence_manifests : ~C38_ShownIsAudited(evidence_manifests[k].manifest)
\* a manifest whose audit list has the entry of an approval that its requests do not show
C38_Torn ==
    \E k \in DOMAIN evidence_manifests : ~C38_AuditedIsShown(evidence_manifests[k].manifest)


\* ---- C39: the order of the policy events ----

\* the policy events in the queue of a subscriber, oldest first
PolicyEventsOf(s) ==
    SelectSeq(client_queues[s], LAMBDA e : e.type \in {"policy_armed", "policy_disarmed"})

\* C39: for concurrent arm_actions and disarm_actions calls every subscriber is handed
\* the policy_armed / policy_disarmed events in the order in which the state changes were
\* made under the policy lock, so that, once all calls have returned, the state carried by
\* the last policy event handed to a subscriber whose queue dropped nothing is the state
\* of the policy
C39_LastEventIsPolicy ==
    (\A t \in Callers : frames[t].pc = "done") =>
        \A s \in DOMAIN client_queues :
            (Len(client_queues[s]) < QueueMaxSize /\ PolicyEventsOf(s) # << >>) =>
                PolicyEventsOf(s)[Len(PolicyEventsOf(s))].payload.state.armed
                    = IsArmed(policy, now)


----------------------------------------------------------------------------
(* ingest_event beside start_session and stop_session: service.py takes no lock
   around lines 247-260, and none in start_session or stop_session *)

IngestSessCallers == {"h1", "h2"}

\* two threads; the store holds no session, or the one active session of an earlier
\* start_session
InitIngestSess ==
    /\ action_requests = << >>
    /\ action_audit_log = << >>
    /\ policy = Disarmed
    /\ now = 0
    /\ emitted = << >>
    /\ frames = [t \in IngestSessCallers |-> IdleFrame]
    /\ exec_log = << >>
    /\ calls = 0
    /\ last_arm = None
    /\ probe = NoProbe
    /\ drone_sessions \in {<< >>, create_drone_session(<< >>, s_passive, None, s_op1, None)}
    /\ drone_detections = << >>
    /\ drone_tracks = << >>
    /\ drone_correlations = << >>
    /\ drone_incidents = << >>
    /\ evidence_manifests = << >>
    /\ manifest_log = << >>
    /\ http = << >>
    /\ subscribers = {}
    /\ client_queues = << >>
    /\ streams = << >>
    /\ received = << >>
    /\ emit_overlap = {}
    /\ upsert_log = << >>

NextIngestSess ==
    \/ \E t \in Callers : ingest_event(t)
    \/ \E t \in Callers : ingest_event_active(t)
    \/ \E t \in Callers : ingest_event_upsert(t)
    \/ \E t \in Callers : ingest_event_get(t)
    \/ \E t \in Callers : ingest_event_track(t)
    \/ \E t \in Callers : ingest_event_correlate(t)
    \/ \E t \in Callers : ingest_event_emit(t)
    \/ \E t \in Callers : start_session(t)
    \/ \E t \in Callers : start_session_create(t)
    \/ \E t \in Callers : start_session_read(t)
    \/ \E t \in Callers : start_session_emit(t)
    \/ \E t \in Callers : stop_session(t)
    \/ \E t \in Callers : stop_session_count(t)
    \/ \E t \in Callers : stop_session_stop(t)
    \/ \E t \in Callers : stop_session_read(t)
    \/ \E t \in Callers : stop_session_emit(t)

\* ingest_event calls of one thread beside session calls of another
SpecIngestSess == InitIngestSess /\ [][NextIngestSess]_vars

\* caller t writes a detection row at line 252
Upserts(t) ==
    /\ Steps(t, "ingest_event", "upsert")
    /\ drone_detections' # drone_detections

\* C40: every detection upserted by ingest_event is keyed on a session that is active
\* at the instant of the upsert, or on no session when none is active: no detection is
\* added to, or refreshed in, a session already stopped, under any interleaving of
\* ingest_event with stop_session and start_session.
C40_UpsertOnActiveSession ==
    [][\A t \in Callers :
          Upserts(t) =>
              LET sid == frames[t].loc[1].session_id
              IN  IF ActiveSessions = {} THEN sid = None
                  ELSE sid # None /\ sid[1] \in ActiveSessions]_vars

\* an ingest_event about to upsert on the session it read at line 247, stopped since
C40_AboutToUpsertOnStopped ==
    \E t \in Callers :
        /\ frames[t].op = "ingest_event" /\ frames[t].pc = "upsert"
        /\ frames[t].loc[1].session_id # None
        /\ drone_sessions[frames[t].loc[1].session_id[1]].stopped_at # None

\* a detection keyed on a stopped session, written after stop_session returned
C40_AddedAfterStopReturned ==
    \E t, u \in Callers :
        /\ frames[t].op = "ingest_event" /\ frames[t].pc = "get"
        /\ frames[u].op = "stop_session" /\ frames[u].pc = "done"
        /\ frames[u].ret # None
        /\ drone_detections # << >>
        /\ \A i \in DOMAIN drone_detections :
               /\ drone_detections[i].session_id # None
               /\ drone_sessions[drone_detections[i].session_id[1]].stopped_at # None

\* what does hold: the row an upsert writes is keyed on the session read at line 247
C40_UpsertOnSessionRead ==
    [][\A t \in Callers :
          Upserts(t) =>
              \A i \in DOMAIN drone_detections' :
                  (i \notin DOMAIN drone_detections \/ drone_detections'[i] # drone_detections[i])
                      => drone_detections'[i].session_id = frames[t].loc[1].session_id]_vars

=============================================================================
